---------------------------- MODULE Spec2Model ----------------------------
(***************************************************************************)
(* A model of genpygoodies: the diagram symbols and their connector table  *)
(* (diagrams/symbol.py, diagrams/logicgates.py), the line connectors       *)
(* (diagrams/connectors.py), the graph drawing classes (diagrams/graph.py),*)
(* the formula helpers (formula.py), the tween helpers (tween.py) and the  *)
(* label alignment of geomutils.py.                                        *)
(*                                                                         *)
(* Numbers are exact rationals [n |-> numerator, d |-> denominator] in     *)
(* lowest terms with d > 0, so that h/4, 0.13333*w, l/(1.2*k) are computed *)
(* as the code computes them, up to floating point rounding.  An angle is  *)
(* the unit vector <<cos, sin>> of the angle; the inputs are chosen so     *)
(* that every square root the code takes is rational.                      *)
(*                                                                         *)
(* The drawing context is a log of the drawing calls made on it.           *)
(*                                                                         *)
(* Each subsystem has its own specification over the shared variables:     *)
(*   SpecSymbol   symbols, style setters and get_connector                 *)
(*   SpecGraph    Graph(), Graph.add, Graph.draw                           *)
(*   SpecEdge     Graph(vertices, edges) with one edge, Graph.draw         *)
(*   SpecFormula  make_formulas_png, formula_zoom_in, formula_fade_in      *)
(*   SpecZoom     formula_zoom_in, formula_fade_in, their at and show      *)
(*   SpecDiagram  drawing symbols and connectors, with and without styles  *)
(*   SpecBox      BoxItem with its connection counts, get_connector        *)
(*   SpecGeom     text_align_for_angle on every whole degree               *)
(*   SpecTween    tween_alpha_on, tween_alpha_off                          *)
(*   SpecElbow    ElbowConnector, its strokestyle and draw                 *)
(***************************************************************************)
EXTENDS Integers, Sequences, FiniteSets, TLC

VARIABLES
    symbol,         \* the Symbol object: its fields
    ret,            \* the last get_connector call on the symbol and its outcome
    graph,          \* the Graph object: vertices, edges, default style
    ctx,            \* the drawing context: the log of drawing calls
    gerr,           \* the exception the last Graph.draw ended with, or "none"
    FORMULA_INDEX,  \* formula.py's global _FORMULA_INDEX
    requests,       \* every call of rasterise_formula so far: name and index
    lastcall,       \* the last call of the formula module and what it produced
    connector,      \* the connector object of diagrams/connectors.py: its fields
    outcome         \* the last call of any other function or method: its
                    \* arguments and what it returned or raised

symvars == <<symbol, ret>>
graphvars == <<graph, ctx, gerr>>
formulavars == <<FORMULA_INDEX, requests, lastcall>>
othervars == <<connector, outcome>>
vars == <<symbol, ret, graph, ctx, gerr, FORMULA_INDEX, requests, lastcall, connector, outcome>>

\* Python's None, and the opaque values of the drawing library (colours, font
\* names, cap and join constants), all records so that any two compare
None == [none |-> TRUE]
Color(c) == [color |-> c]
Const(c) == [const |-> c]

---------------------------------------------------------------------------
(* Exact rational arithmetic: Python's numbers *)

Abs(i) == IF i < 0 THEN -i ELSE i

RECURSIVE GCD(_, _)
GCD(a, b) == IF b = 0 THEN a ELSE GCD(b, a % b)

\* n/d in lowest terms, d > 0 (d # 0 is the caller's duty: see Div)
Lowest(n, d, g) == [n |-> n \div g, d |-> d \div g]
Reduce(n, d) == Lowest(n, d, GCD(Abs(n), d))
Norm(n, d) == IF d < 0 THEN Reduce(-n, -d) ELSE Reduce(n, d)

Q(n, d) == Norm(n, d)
I(i) == [n |-> i, d |-> 1]
Zero == I(0)

Add(a, b) == Norm(a.n * b.d + b.n * a.d, a.d * b.d)
Sub(a, b) == Norm(a.n * b.d - b.n * a.d, a.d * b.d)
Mul(a, b) == Norm(a.n * b.n, a.d * b.d)
Neg(a) == [n |-> -a.n, d |-> a.d]
\* a / b; Python raises ZeroDivisionError when b = 0, which callers test first
Div(a, b) == Norm(a.n * b.d, a.d * b.n)
Lt(a, b) == a.n * b.d < b.n * a.d
Le(a, b) == a.n * b.d <= b.n * a.d
IsZero(a) == a.n = 0
RAbs(a) == [n |-> Abs(a.n), d |-> a.d]
Sq(a) == Mul(a, a)

\* the largest r in lo..hi with r * r <= m, by bisection
RECURSIVE Bisect(_, _, _)
Bisect(m, lo, hi) ==
    IF lo >= hi THEN lo
    ELSE LET mid == (lo + hi + 1) \div 2
         IN  IF mid * mid <= m THEN Bisect(m, mid, hi) ELSE Bisect(m, lo, mid - 1)
\* the integer square root of a perfect square (of nothing else); no root of
\* a 32-bit integer exceeds 46340
ISqrt(m) == CHOOSE r \in {Bisect(m, 0, IF m < 46340 THEN m ELSE 46340)} : r * r = m
\* math.sqrt on the rationals whose root is rational
Sqrt(a) == [n |-> ISqrt(a.n), d |-> ISqrt(a.d)]

---------------------------------------------------------------------------
(* generativepy.math.Vector, as the repository uses it *)

V(x, y) == [x |-> x, y |-> y]
VI(i, j) == V(I(i), I(j))
VAdd(p, q) == V(Add(p.x, q.x), Add(p.y, q.y))
VSub(p, q) == V(Sub(p.x, q.x), Sub(p.y, q.y))
VScale(p, k) == V(Mul(p.x, k), Mul(p.y, k))
VDivS(p, k) == V(Div(p.x, k), Div(p.y, k))
Dot(p, q) == Add(Mul(p.x, q.x), Mul(p.y, q.y))
Cross(p, q) == Sub(Mul(p.x, q.y), Mul(p.y, q.x))
Len2(p) == Dot(p, p)
VLength(p) == Sqrt(Len2(p))

\* An angle is <<cos, sin>>.  Vector.angle is atan2(y, x); atan2(0, 0) = 0.
AngleOf(p) ==
    IF IsZero(p.x) /\ IsZero(p.y) THEN V(I(1), I(0))
    ELSE VDivS(p, VLength(p))
AngAdd(a, b) == V(Sub(Mul(a.x, b.x), Mul(a.y, b.y)), Add(Mul(a.y, b.x), Mul(a.x, b.y)))
AngNeg(a) == V(a.x, Neg(a.y))
AngSub(a, b) == AngAdd(a, AngNeg(b))
Deg0 == V(I(1), I(0))
Deg90 == V(I(0), I(1))
Cos(a) == a.x
Sin(a) == a.y
\* Vector.polar(r, angle)
Polar(r, a) == V(Mul(r, Cos(a)), Mul(r, Sin(a)))
\* math.asin(s) for -1 <= s <= 1: the angle in [-90, 90] degrees whose sine is s
Asin(s) == V(Sqrt(Sub(I(1), Sq(s))), s)


---------------------------------------------------------------------------
(* diagrams/symbol.py and diagrams/logicgates.py *)

MaxConnections == 2

\* generativepy's StrokeParameters(...) and FillParameters(...): a None
\* argument is replaced by the library default
StrokeParameters(pattern, line_width, dash, cap, join, miter_limit) ==
    [pattern |-> IF pattern = None THEN Color("0") ELSE pattern,
     line_width |-> IF line_width = None THEN I(1) ELSE line_width,
     dash |-> IF dash = None THEN Const("nodash") ELSE dash,
     cap |-> IF cap = None THEN Const("SQUARE") ELSE cap,
     join |-> IF join = None THEN Const("MITER") ELSE join,
     miter_limit |-> IF miter_limit = None THEN I(10) ELSE miter_limit]

FillParameters(pattern, fill_rule) ==
    [pattern |-> IF pattern = None THEN Color("0") ELSE pattern,
     fill_rule |-> IF fill_rule = None THEN Const("WINDING") ELSE fill_rule]

\* Python truthiness of an optional number
Truthy(x) == x # None /\ ~IsZero(x)

get_default_height(width) == width

\* Symbol.height
height(fixed_height, width) ==
    IF Truthy(fixed_height) THEN fixed_height ELSE get_default_height(width)

Half == Q(1, 2)

\* BoxItem, mutated: the points of one side start on its corner, gap * i
BoxSideFromCorner(extent, n, mk(_)) ==
    LET gap == IF n # 0 THEN Div(extent, I(n)) ELSE Zero
    IN  [i \in 1..n |-> mk(Mul(gap, I(i - 1)))]

\* BoxItem: points of one side, gap * (i + 0.5) along it
BoxSide(extent, n, mk(_)) ==
    LET gap == IF n # 0 THEN Div(extent, I(n)) ELSE Zero
    IN  [i \in 1..n |-> mk(Mul(gap, Add(I(i - 1), Half)))]

\* The _connectors table, mutated: the sides of a BoxItem start on the corner
ConnectorsFromCorner(kind, width, h, invert, conns) ==
    LET LeftPt(t) == V(Zero, t)
        RightPt(t) == V(width, t)
        TopPt(t) == V(t, Zero)
        BottomPt(t) == V(t, h)
    IN  IF kind = "BoxItem"
        THEN << BoxSideFromCorner(h, conns[1], LeftPt),
                BoxSideFromCorner(h, conns[2], RightPt),
                BoxSideFromCorner(width, conns[3], TopPt),
                BoxSideFromCorner(width, conns[4], BottomPt) >>
        ELSE << <<V(Zero, Div(h, I(2)))>>, <<V(width, Div(h, I(2)))>> >>

\* The _connectors table, mutated: the output of an inverting gate is moved
\* by the bubble's radius
ConnectorsInsideBubble(kind, width, h, invert, conns) ==
    LET bubble_radius == Div(width, I(10))
        output_offset == IF invert THEN bubble_radius ELSE Zero
        out == V(Add(width, output_offset), Div(h, I(2)))
        inx == Mul(Q(13333, 100000), width)
    IN  CASE kind = "Buffer" -> << <<V(Zero, Div(h, I(2)))>>, <<out>> >>
          [] kind = "And" ->
                << <<V(Zero, Div(h, I(4))), V(Zero, Div(Mul(h, I(3)), I(4)))>>, <<out>> >>
          [] kind \in {"Or", "Xor"} ->
                << <<V(inx, Div(h, I(4))), V(inx, Div(Mul(h, I(3)), I(4)))>>, <<out>> >>
          [] kind = "BoxItem" -> << <<>>, <<>>, <<>>, <<>> >>

\* The _connectors table each constructor builds
Connectors(kind, width, h, invert, conns) ==
    LET bubble_radius == Div(width, I(10))
        output_offset == IF invert THEN Mul(bubble_radius, I(2)) ELSE Zero
        out == V(Add(width, output_offset), Div(h, I(2)))
        inx == Mul(Q(13333, 100000), width)
        LeftPt(t) == V(Zero, t)
        RightPt(t) == V(width, t)
        TopPt(t) == V(t, Zero)
        BottomPt(t) == V(t, h)
    IN  CASE kind = "Buffer" -> << <<V(Zero, Div(h, I(2)))>>, <<out>> >>
          [] kind = "And" ->
                << <<V(Zero, Div(h, I(4))), V(Zero, Div(Mul(h, I(3)), I(4)))>>, <<out>> >>
          [] kind \in {"Or", "Xor"} ->
                << <<V(inx, Div(h, I(4))), V(inx, Div(Mul(h, I(3)), I(4)))>>, <<out>> >>
          [] kind = "BoxItem" ->
                << BoxSide(h, conns[1], LeftPt), BoxSide(h, conns[2], RightPt),
                   BoxSide(width, conns[3], TopPt), BoxSide(width, conns[4], BottomPt) >>

\* Symbol.__init__ followed by the subclass constructor
NewSymbolObject(kind, position, width, fixed_height, invert, conns) ==
    [kind |-> kind,
     position |-> position,
     width |-> width,
     fixed_height |-> fixed_height,
     invert |-> invert,
     strokeparams |-> StrokeParameters(None, None, None, None, None, None),
     fillparams |-> FillParameters(None, None),
     connectors |-> Connectors(kind, width, height(fixed_height, width), invert, conns)]

\* get_connector, mutated: Python's own indexing, where -1 is the last entry
get_connector_wraps(self, col, row) ==
    LET n == Len(self.connectors)
        c == IF col < 0 THEN col + n ELSE col
    IN  IF c < 0 \/ c >= n
        THEN [exc |-> "IndexError", value |-> None, self |-> self]
        ELSE LET m == Len(self.connectors[c + 1])
                 r == IF row < 0 THEN row + m ELSE row
             IN  IF r < 0 \/ r >= m
                 THEN [exc |-> "IndexError", value |-> None, self |-> self]
                 ELSE [exc |-> "none",
                       value |-> VAdd(self.connectors[c + 1][r + 1], self.position),
                       self |-> self]

\* get_connector, mutated: the local offset is returned as it is
get_connector_local(self, col, row) ==
    IF col < 0 \/ col >= Len(self.connectors)
    THEN [exc |-> "ValueError", value |-> None, self |-> self]
    ELSE IF row < 0 \/ row >= Len(self.connectors[col + 1])
    THEN [exc |-> "ValueError", value |-> None, self |-> self]
    ELSE [exc |-> "none", value |-> self.connectors[col + 1][row + 1], self |-> self]

\* get_connector, mutated: the symbol is moved to the connector it returns
get_connector_moves(self, col, row) ==
    IF col < 0 \/ col >= Len(self.connectors)
    THEN [exc |-> "ValueError", value |-> None, self |-> self]
    ELSE IF row < 0 \/ row >= Len(self.connectors[col + 1])
    THEN [exc |-> "ValueError", value |-> None, self |-> self]
    ELSE LET p == VAdd(self.connectors[col + 1][row + 1], self.position)
         IN  [exc |-> "none", value |-> p, self |-> [self EXCEPT !.position = p]]

\* Symbol.get_connector(col, row): the exception raised or the value
\* returned, and the object after the call
get_connector(self, col, row) ==
    IF col < 0 \/ col >= Len(self.connectors)
    THEN [exc |-> "ValueError", value |-> None, self |-> self]
    ELSE IF row < 0 \/ row >= Len(self.connectors[col + 1])
    THEN [exc |-> "ValueError", value |-> None, self |-> self]
    ELSE [exc |-> "none",
          value |-> VAdd(self.connectors[col + 1][row + 1], self.position),
          self |-> self]

\* the parameter objects the tests pass to the setters
green_stroke == StrokeParameters(Color("darkgreen"), I(4), None, Const("ROUND"), None, None)
grey_fill == FillParameters(Color("0.8"), None)

\* Symbol.fillstyle(pattern, fill_rule): the object after the call
fillstyle(self, pattern, fill_rule) ==
    IF pattern = grey_fill   \* isinstance(pattern, FillParameters)
    THEN [self EXCEPT !.fillparams = pattern]
    ELSE [self EXCEPT !.fillparams = FillParameters(pattern, fill_rule)]

\* Symbol.strokestyle, mutated: the fill parameters go back to the default
strokestyle_resetting_fill(self, pattern, line_width) ==
    IF pattern = green_stroke
    THEN [self EXCEPT !.strokeparams = pattern, !.fillparams = FillParameters(None, None)]
    ELSE [self EXCEPT !.strokeparams =
              StrokeParameters(pattern, line_width, None, Const("SQUARE"), Const("MITER"), None),
                      !.fillparams = FillParameters(None, None)]

\* Symbol.strokestyle(pattern, line_width, ...): the object after the call
strokestyle(self, pattern, line_width) ==
    IF pattern = green_stroke   \* isinstance(pattern, StrokeParameters)
    THEN [self EXCEPT !.strokeparams = pattern]
    ELSE [self EXCEPT !.strokeparams =
              StrokeParameters(pattern, line_width, None, Const("SQUARE"), Const("MITER"), None)]

Kinds == {"Buffer", "And", "Or", "Xor", "BoxItem"}
\* constructor arguments: position, and width with height
SymPositions == {VI(100, 100), VI(0, -20)}
SymSizes == {<<I(50), None>>, <<I(50), I(80)>>, <<I(30), I(0)>>}
\* connection counts (left, right, top, bottom) of a BoxItem
BoxConnections ==
    {<<MaxConnections, 1, 0, 0>>, <<1, MaxConnections, MaxConnections, 1>>}
Cols == -1..4
Rows == -1..MaxConnections

NoCall == [col |-> -9, row |-> -9, exc |-> "nocall", value |-> None]

\* gate = Buffer((100, 100), 50)
InitSymbol ==
    /\ symbol = NewSymbolObject("Buffer", VI(100, 100), I(50), None, FALSE, <<>>)
    /\ ret = NoCall
    /\ graph = [vertices |-> <<>>, edges |-> <<>>]
    /\ ctx = <<>>
    /\ gerr = "none"
    /\ FORMULA_INDEX = 0
    /\ requests = <<>>
    /\ lastcall = [op |-> "none"]
    /\ connector = None
    /\ outcome = [op |-> "none"]

\* gate = Buffer(...) / And(...) / Or(...) / Xor(...)
NewGate ==
    /\ \E kind \in Kinds \ {"BoxItem"}, position \in SymPositions, wh \in SymSizes,
          invert \in BOOLEAN :
          symbol' = NewSymbolObject(kind, position, wh[1], wh[2], invert, <<>>)
    /\ ret' = NoCall
    /\ UNCHANGED <<graphvars, formulavars, othervars>>

\* box = BoxItem(...)
NewBoxItem ==
    /\ \E position \in SymPositions, wh \in SymSizes, conns \in BoxConnections :
          symbol' = NewSymbolObject("BoxItem", position, wh[1], wh[2], FALSE, conns)
    /\ ret' = NoCall
    /\ UNCHANGED <<graphvars, formulavars, othervars>>

\* gate.fillstyle(Color("yellow")) / gate.fillstyle(grey_fill)
Fillstyle ==
    /\ \E pattern \in {Color("yellow"), grey_fill} :
          symbol' = fillstyle(symbol, pattern, None)
    /\ UNCHANGED <<ret, graphvars, formulavars, othervars>>

\* gate.strokestyle(Color("blue"), 3) / gate.strokestyle(green_stroke)
Strokestyle ==
    /\ \E pattern \in {Color("blue"), green_stroke} :
          symbol' = strokestyle(symbol, pattern, I(3))
    /\ UNCHANGED <<ret, graphvars, formulavars, othervars>>

\* gate.get_connector(col, row)
GetConnector ==
    /\ \E col \in Cols, row \in Rows :
        LET r == get_connector(symbol, col, row)
        IN  /\ symbol' = r.self
            /\ ret' = [col |-> col, row |-> row, exc |-> r.exc, value |-> r.value]
    /\ UNCHANGED <<graphvars, formulavars, othervars>>

\* connection counts for a BoxItem whose constructor call is kept
BoxCounts ==
    BoxConnections \cup {<<0, 0, 2, MaxConnections>>, <<MaxConnections + 1, 2, 1, 0>>}

\* box = BoxItem(position, width, height, left_connections, right_connections,
\*               top_connections, bottom_connections), the call kept in outcome
NewBox ==
    /\ \E position \in SymPositions, wh \in SymSizes, conns \in BoxCounts :
          /\ symbol' = NewSymbolObject("BoxItem", position, wh[1], wh[2], FALSE, conns)
          /\ outcome' = [op |-> "BoxItem", position |-> position, width |-> wh[1],
                         height |-> wh[2], connections |-> conns]
    /\ ret' = NoCall
    /\ UNCHANGED <<graphvars, formulavars, connector>>

NextSymbol ==
    \/ NewGate
    \/ NewBoxItem
    \/ Fillstyle
    \/ Strokestyle
    \/ GetConnector

SpecSymbol == InitSymbol /\ [][NextSymbol]_vars

NextBox == NewBox \/ GetConnector

SpecBox == InitSymbol /\ [][NextBox]_vars

---------------------------------------------------------------------------
(* diagrams/graph.py *)

MaxVertices == 2
MaxEdges == 2

Font(f) == [font |-> f]
Text(t) == [text |-> t]

\* str(x) of a non-negative integer: its decimal digits
Digit(d) == <<"0", "1", "2", "3", "4", "5", "6", "7", "8", "9">>[d + 1]
RECURSIVE StrNat(_)
StrNat(n) == IF n < 10 THEN Digit(n) ELSE StrNat(n \div 10) \o Digit(n % 10)
\* str(weight): of an integer, or of a string (which is itself)
Str(w) ==
    IF "text" \in DOMAIN w THEN w.text
    ELSE IF w.n < 0 THEN "-" \o StrNat(-w.n) ELSE StrNat(w.n)

\* seq[i], mutated: an index below 0 names no element
PyValidIndexFromZero(seq, i) == 0 <= i /\ i < Len(seq)

\* seq[i] with Python's list indexing: -1 is the last element
PyValidIndex(seq, i) == -Len(seq) <= i /\ i < Len(seq)
PyIndex(seq, i) == IF i < 0 THEN seq[Len(seq) + i + 1] ELSE seq[i + 1]

\* Vertex(position, label, fgcolor, bgcolor, lw, radius, font, text_size)
Vertex(position, label, fgcolor, bgcolor, lw, radius, font, text_size) ==
    [position |-> position, label |-> label, fgcolor |-> fgcolor, bgcolor |-> bgcolor,
     lw |-> lw, radius |-> radius, font |-> font, text_size |-> text_size]

\* Edge(start, end) with the constructor's defaults for everything else
Edge(start, end) ==
    [start |-> start, end |-> end, directed |-> FALSE, weight |-> None, offset |-> None,
     curve |-> FALSE, curvature |-> I(1), color |-> None, lw |-> None, font |-> None,
     text_size |-> None, loop_radius |-> I(30), loop_angle |-> Deg0]

\* Graph(vertices, edges, fgcolor, bgcolor, lw, radius, font, text_size)
Graph(vertices, edges, fgcolor, bgcolor, lw, radius, font, text_size) ==
    [vertices |-> vertices, edges |-> edges, fgcolor |-> fgcolor, bgcolor |-> bgcolor,
     lw |-> lw, radius |-> radius, font |-> font, text_size |-> text_size]

\* Graph(vertices, edges): the default style
DefaultGraph(vertices, edges) ==
    Graph(vertices, edges, Color("0"), Color("1"), I(4), I(30), Font("Arial"), I(30))

\* x if self.x is None else self.x, mutated: x if not self.x else self.x
OverrideIfTruthy(default, override) ==
    IF override = None \/ (DOMAIN override = {"n", "d"} /\ override.n = 0)
    THEN default ELSE override

\* x = x if self.x is None else self.x
Override(default, override) == IF override = None THEN default ELSE override

VertexDrawn(self, fgcolor, bgcolor, radius, lw, font, text_size) ==
    << [op |-> "Circle", center |-> self.position, radius |-> radius,
        fill |-> bgcolor, stroke |-> fgcolor, lw |-> lw],
       [op |-> "Text", text |-> self.label, position |-> self.position,
        font |-> font, size |-> text_size, offset |-> V(Zero, Zero), fill |-> fgcolor] >>

\* Vertex.draw: the drawing calls it makes, in order
Vertex_draw(self, fgcolor, bgcolor, radius, lw, font, text_size) ==
    VertexDrawn(self, Override(fgcolor, self.fgcolor), Override(bgcolor, self.bgcolor),
                Override(radius, self.radius), Override(lw, self.lw),
                Override(font, self.font), Override(text_size, self.text_size))

SixFifths == Q(6, 5)
SevenTenths == Q(7, 10)
FourFifths == Q(4, 5)

Raised(exc) == [exc |-> exc, ops |-> <<>>, apex |-> None]

\* lines 240-242: the centre c, the arc drawn and the apex returned
ArcDrawn(c, radius, a, b, color, lw) ==
    [exc |-> "none",
     ops |-> << [op |-> "Arc", center |-> c, radius |-> radius,
                 from |-> AngSub(a, b), to |-> AngAdd(a, b),
                 stroke |-> color, lw |-> lw] >>,
     apex |-> VAdd(c, Polar(radius, a))]

\* the centre, mutated: the midpoint of the chord
ArcCentreOnChord(p0, x, y, l, h) == VAdd(p0, V(Div(x, I(2)), Div(y, I(2))))

\* line 240: c = p0 + V(x/2 - h*(y/l), y/2 + h*(x/l))
ArcCentre(p0, x, y, l, h) ==
    VAdd(p0, V(Sub(Div(x, I(2)), Mul(h, Div(y, l))), Add(Div(y, I(2)), Mul(h, Div(x, l)))))

\* line 239: h = radius*math.cos(b)
ArcFromAngles(p0, d, l, radius, a, b, color, lw) ==
    ArcDrawn(ArcCentre(p0, d.x, d.y, l, Mul(radius, Cos(b))), radius, a, b, color, lw)

\* line 238, mutated: the domain error also at -1 and 1
ArcFromSineOpen(p0, d, l, radius, s, color, lw) ==
    IF Le(I(1), RAbs(s)) THEN Raised("ValueError")
    ELSE ArcFromAngles(p0, d, l, radius, AngSub(AngleOf(d), Deg90), Asin(s), color, lw)

\* line 238: b = math.asin(l/(2*radius)), a math domain error outside [-1, 1]
ArcFromSine(p0, d, l, radius, s, color, lw) ==
    IF Lt(I(1), RAbs(s)) THEN Raised("ValueError")
    ELSE ArcFromAngles(p0, d, l, radius, AngSub(AngleOf(d), Deg90), Asin(s), color, lw)

ArcFromRadius(p0, d, l, radius, color, lw) ==
    IF IsZero(Mul(I(2), radius)) THEN Raised("ZeroDivisionError")
    ELSE ArcFromSine(p0, d, l, radius, Div(l, Mul(I(2), radius)), color, lw)

\* the solver, mutated: a chord of length 0 or a curvature of 0 is guarded
\* and gives the midpoint of the chord with nothing drawn
ArcFromChordGuarded(p0, d, k12, color, lw) ==
    IF IsZero(k12) \/ IsZero(VLength(d))
    THEN [exc |-> "none", ops |-> <<>>, apex |-> VAdd(p0, VDivS(d, I(2)))]
    ELSE ArcFromRadius(p0, d, VLength(d), Div(VLength(d), k12), color, lw)

\* the radius, mutated: radius = l/(1.2*abs(self.curvature))
ArcFromChordUnsigned(p0, d, k12, color, lw) ==
    IF IsZero(k12) THEN Raised("ZeroDivisionError")
    ELSE ArcFromRadius(p0, d, VLength(d), Div(VLength(d), RAbs(k12)), color, lw)

\* line 237: radius = l/(1.2*self.curvature)
ArcFromChord(p0, d, k12, color, lw) ==
    IF IsZero(k12) THEN Raised("ZeroDivisionError")
    ELSE ArcFromRadius(p0, d, VLength(d), Div(VLength(d), k12), color, lw)

\* Edge.arc_between_points: the exception it raises, or the arc it draws
\* and the apex it returns
arc_between_points(self, p0, p1, color, lw) ==
    ArcFromChord(p0, VSub(p1, p0), Mul(SixFifths, self.curvature), color, lw)

Marker(start, end, color, lw) ==
    [op |-> "ParallelMarker", start |-> start, end |-> end,
     length |-> Mul(lw, I(4)), stroke |-> color, lw |-> lw]

\* the offset, mutated: the explicit offset is ignored
WeightOffsetIgnored(self, direction, text_size) ==
    Polar(Mul(text_size, SevenTenths), AngSub(AngleOf(direction), Deg90))

\* offset = V.polar(text_size*0.7, direction.angle - 90 degrees)
\*          if self.offset is None else V(self.offset)
WeightOffset(self, direction, text_size) ==
    IF self.offset = None
    THEN Polar(Mul(text_size, SevenTenths), AngSub(AngleOf(direction), Deg90))
    ELSE self.offset

WeightText(self, at, direction, color, font, text_size) ==
    [op |-> "Text", text |-> Str(self.weight), position |-> at, font |-> font,
     size |-> text_size, offset |-> WeightOffset(self, direction, text_size), fill |-> color]

\* the marker and the label, mutated: if self.weight: instead of
\* if self.weight is not None:
DecorationsIfTruthy(self, mstart, mend, at, direction, color, lw, font, text_size) ==
    (IF self.directed THEN <<Marker(mstart, mend, color, lw)>> ELSE <<>>)
    \o (IF self.weight # None /\ self.weight # I(0)
        THEN <<WeightText(self, at, direction, color, font, text_size)>> ELSE <<>>)

\* the marker and the label that follow an edge's base shape
Decorations(self, mstart, mend, at, direction, color, lw, font, text_size) ==
    (IF self.directed THEN <<Marker(mstart, mend, color, lw)>> ELSE <<>>)
    \o (IF self.weight # None
        THEN <<WeightText(self, at, direction, color, font, text_size)>> ELSE <<>>)

Drawn(ops) == [exc |-> "none", ops |-> ops]

\* lines 205-212, with c, apex and direction computed
LoopDrawn(self, c, apex, direction, color, lw, font, text_size) ==
    Drawn(<< [op |-> "Circle", center |-> c, radius |-> self.loop_radius,
              fill |-> None, stroke |-> color, lw |-> lw] >>
          \o Decorations(self, VSub(apex, direction), VAdd(apex, direction),
                         apex, direction, color, lw, font, text_size))

LoopFromCentre(self, c, color, lw, font, text_size) ==
    LoopDrawn(self, c, VAdd(c, Polar(self.loop_radius, self.loop_angle)),
              Polar(self.loop_radius, AngAdd(self.loop_angle, Deg90)),
              color, lw, font, text_size)

\* lines 203-212: the loop, mutated: the loop centre at distance
\* vertex_radius + loop_radius
LoopTouching(self, p0, color, lw, font, text_size, vertex_radius) ==
    LoopFromCentre(self,
                   VAdd(p0, Polar(Add(vertex_radius, self.loop_radius), self.loop_angle)),
                   color, lw, font, text_size)

\* lines 203-212: the loop
Loop(self, p0, color, lw, font, text_size, vertex_radius) ==
    LoopFromCentre(self,
                   VAdd(p0, Polar(Add(vertex_radius, Mul(self.loop_radius, FourFifths)),
                                  self.loop_angle)),
                   color, lw, font, text_size)

\* lines 213-220: the straight edge
Straight(self, p0, p1, color, lw, font, text_size) ==
    Drawn(<< [op |-> "Line", start |-> p0, end |-> p1, stroke |-> color, lw |-> lw] >>
          \o Decorations(self, p0, p1, VDivS(VAdd(p0, p1), I(2)), VSub(p1, p0),
                         color, lw, font, text_size))

\* lines 221-228: the curved edge, given what arc_between_points did
Curved(self, arc, direction, color, lw, font, text_size) ==
    IF arc.exc # "none" THEN [exc |-> arc.exc, ops |-> <<>>]
    ELSE Drawn(arc.ops
               \o Decorations(self, VSub(arc.apex, direction), VAdd(arc.apex, direction),
                              arc.apex, direction, color, lw, font, text_size))

\* Edge.draw's choice, mutated: the curve flag is tested before start == end
EdgeShapeCurveFirst(self, p0, p1, color, lw, font, text_size, vertex_radius) ==
    IF self.curve
    THEN Curved(self, arc_between_points(self, p0, p1, color, lw), VSub(p1, p0),
                color, lw, font, text_size)
    ELSE IF self.start = self.end
    THEN Loop(self, p0, color, lw, font, text_size, vertex_radius)
    ELSE Straight(self, p0, p1, color, lw, font, text_size)

\* lines 201-228, with the style resolved
EdgeShape(self, p0, p1, color, lw, font, text_size, vertex_radius) ==
    IF self.start = self.end
    THEN Loop(self, p0, color, lw, font, text_size, vertex_radius)
    ELSE IF ~self.curve
    THEN Straight(self, p0, p1, color, lw, font, text_size)
    ELSE Curved(self, arc_between_points(self, p0, p1, color, lw), VSub(p1, p0),
                color, lw, font, text_size)

\* Edge.draw: the exception it raises and the drawing calls it makes, in
\* order; vertices[self.start] raises IndexError before anything is drawn
Edge_draw(self, vertices, color, lw, font, text_size, vertex_radius) ==
    IF ~PyValidIndex(vertices, self.start) \/ ~PyValidIndex(vertices, self.end)
    THEN [exc |-> "IndexError", ops |-> <<>>]
    ELSE EdgeShape(self, PyIndex(vertices, self.start).position,
                   PyIndex(vertices, self.end).position,
                   Override(color, self.color), Override(lw, self.lw),
                   Override(font, self.font), Override(text_size, self.text_size),
                   vertex_radius)

\* every call tagged with the item that made it: <<"edge", index>> or
\* <<"vertex", index>>, the index counted from 0
Tag(ops, kind, idx) == [j \in 1..Len(ops) |-> [by |-> <<kind, idx>>, call |-> ops[j]]]

RECURSIVE Concat(_)
Concat(ss) == IF ss = <<>> THEN <<>> ELSE Head(ss) \o Concat(Tail(ss))

SetMin(S) == CHOOSE m \in S : \A o \in S : m <= o

\* the calls of the edges 1..last, where the last one may have raised exc
EdgesLog(R, last, exc) ==
    [exc |-> exc, log |-> Concat([i \in 1..last |-> Tag(R[i].ops, "edge", i - 1)])]

EdgesUpTo(R, bad) ==
    IF bad = {} THEN EdgesLog(R, Len(R), "none")
    ELSE EdgesLog(R, SetMin(bad), R[SetMin(bad)].exc)

EdgesDrawn(R) == EdgesUpTo(R, {i \in 1..Len(R) : R[i].exc # "none"})

\* for edge in self.edges: edge.draw(...): the loop ends at the first edge
\* whose draw raises, with the calls made up to there
DrawEdges(self) ==
    EdgesDrawn([i \in 1..Len(self.edges) |->
                   Edge_draw(self.edges[i], self.vertices, self.fgcolor, self.lw,
                             self.font, self.text_size, self.radius)])

\* for vertex in self.vertices: vertex.draw(...)
DrawVertices(self) ==
    Concat([i \in 1..Len(self.vertices) |->
               Tag(Vertex_draw(self.vertices[i], self.fgcolor, self.bgcolor, self.radius,
                               self.lw, self.font, self.text_size), "vertex", i - 1)])

EdgesThenVertices(e, self) ==
    IF e.exc # "none" THEN e ELSE [exc |-> "none", log |-> e.log \o DrawVertices(self)]

VerticesThenEdges(e, self) == [exc |-> e.exc, log |-> DrawVertices(self) \o e.log]

\* Graph.draw, mutated: the vertices are drawn first, the edges over them
Graph_draw_vertices_first(self) == VerticesThenEdges(DrawEdges(self), self)

\* Graph.draw: the exception it ends with and the calls made on ctx
Graph_draw(self) == EdgesThenVertices(DrawEdges(self), self)

\* Graph.add, mutated: the item is put at the front of its list
Graph_add_front(self, item) ==
    IF "label" \in DOMAIN item THEN [self EXCEPT !.vertices = <<item>> \o @]
    ELSE IF "start" \in DOMAIN item THEN [self EXCEPT !.edges = <<item>> \o @]
    ELSE self

\* Graph.add(item); an item that is neither a Vertex nor an Edge is ignored
Graph_add(self, item) ==
    IF "label" \in DOMAIN item THEN [self EXCEPT !.vertices = Append(@, item)]
    ELSE IF "start" \in DOMAIN item THEN [self EXCEPT !.edges = Append(@, item)]
    ELSE self

\* Graph() and the styled Graph(...) of test_colour_graph
GraphStyles ==
    {DefaultGraph(<<>>, <<>>),
     Graph(<<>>, <<>>, Color("blue"), Color("yellow.light1"), I(6), I(40),
           Font("Times New Roman"), I(40))}

PosA == VI(100, 100)
PosB == VI(100, 300)
PosC == VI(250, 300)

\* the vertices added: plain, every style overridden, and two overridden
\* of which one by a zero
VertexInputs ==
    {Vertex(PosA, "A", None, None, None, None, None, None),
     Vertex(PosB, "B", Color("red"), Color("blue.light1"), I(4), I(20), Font("Courier"), I(25)),
     Vertex(PosC, "C", None, None, I(0), I(50), None, None)}

\* the edges added: straight, styled and decorated, loop, curved, and two
\* whose indices may not name a vertex
EdgeInputs ==
    {Edge(0, 1),
     [Edge(1, 0) EXCEPT !.directed = TRUE, !.weight = I(2),
                        !.color = Color("orange.dark1"), !.lw = I(10)],
     [Edge(1, 1) EXCEPT !.directed = TRUE, !.weight = Text("a"), !.lw = I(0),
                        !.font = Font("Courier"), !.text_size = I(20)],
     [Edge(0, 1) EXCEPT !.curve = TRUE, !.weight = I(1)],
     Edge(0, 2),
     Edge(-1, 0)}

InitGraph ==
    /\ graph = DefaultGraph(<<>>, <<>>)
    /\ ctx = <<>>
    /\ gerr = "undrawn"
    /\ symbol = NewSymbolObject("Buffer", VI(100, 100), I(50), None, FALSE, <<>>)
    /\ ret = NoCall
    /\ FORMULA_INDEX = 0
    /\ requests = <<>>
    /\ lastcall = [op |-> "none"]
    /\ connector = None
    /\ outcome = [op |-> "none"]

\* a new frame: setup(ctx, ...) and graph = Graph(...)
NewGraph ==
    /\ graph' \in GraphStyles
    /\ ctx' = <<>>
    /\ gerr' = "undrawn"
    /\ UNCHANGED <<symvars, formulavars, othervars>>

\* Graph(vertices=[...], edges=[...], ...): lists given to the constructor
NewGraphFrom ==
    /\ \E style \in GraphStyles, v \in VertexInputs, es \in {<<>>, <<Edge(0, 1)>>} :
          graph' = [style EXCEPT !.vertices = <<v>>, !.edges = es]
    /\ ctx' = <<>>
    /\ gerr' = "undrawn"
    /\ UNCHANGED <<symvars, formulavars, othervars>>

\* graph.add(Vertex(...)), while the graph is being built
AddVertex ==
    /\ gerr = "undrawn"
    /\ Len(graph.vertices) < MaxVertices
    /\ \E v \in VertexInputs : graph' = Graph_add(graph, v)
    /\ UNCHANGED <<ctx, gerr, symvars, formulavars, othervars>>

\* graph.add(Edge(...)), while the graph is being built
AddEdge ==
    /\ gerr = "undrawn"
    /\ Len(graph.edges) < MaxEdges
    /\ \E e \in EdgeInputs : graph' = Graph_add(graph, e)
    /\ UNCHANGED <<ctx, gerr, symvars, formulavars, othervars>>

\* graph.draw(ctx), once the graph is built
DrawGraph ==
    /\ gerr = "undrawn"
    /\ \E r \in {Graph_draw(graph)} :
          /\ ctx' = r.log
          /\ gerr' = r.exc
    /\ UNCHANGED <<graph, symvars, formulavars, othervars>>

ScenarioItems ==
    << Vertex(VI(100, 100), "A", None, None, None, None, None, None),
       Vertex(VI(100, 300), "B", None, None, None, None, None, None),
       Vertex(VI(200, 50), "C", None, None, None, None, None, None),
       Vertex(VI(300, 200), "D", None, None, None, None, None, None),
       Edge(0, 1), Edge(1, 3), Edge(2, 0), Edge(3, 2) >>

RECURSIVE AddAll(_, _, _)
AddAll(g, items, i) ==
    IF i > Len(items) THEN g ELSE AddAll(Graph_add(g, items[i]), items, i + 1)

\* the first graph of test_default_graph: Graph(), eight add calls, draw
TestDefaultGraph ==
    /\ \E g \in {AddAll(DefaultGraph(<<>>, <<>>), ScenarioItems, 1)} :
          \E r \in {Graph_draw(g)} :
             /\ graph' = g
             /\ ctx' = r.log
             /\ gerr' = r.exc
    /\ UNCHANGED <<symvars, formulavars, othervars>>

NextGraph ==
    \/ NewGraph
    \/ NewGraphFrom
    \/ AddVertex
    \/ AddEdge
    \/ DrawGraph
    \/ TestDefaultGraph

SpecGraph == InitGraph /\ [][NextGraph]_vars

\* Graph(vertices=[v0, v1], edges=[edge], radius=...) for one edge
EdgePositions == {PosA, PosB, VI(400, 500), VI(40, 20)}
Curvatures == {I(1), I(-1), Q(4, 3), Q(5, 3), Q(-7, 15), I(2), I(0)}
LoopAngles == {Deg0, Deg90, V(I(-1), I(0)), V(Q(3, 5), Q(4, 5)), V(Q(-4, 5), Q(-3, 5))}
Weights == {None, I(0), Text("a")}
Offsets == {None, VI(-40, 20)}
TextSizes == {None, I(20)}
Decorated(e, directed, weight, offset, text_size) ==
    [e EXCEPT !.directed = directed, !.weight = weight, !.offset = offset,
              !.text_size = text_size]
LoopEdges ==
    {[Edge(i, i) EXCEPT !.loop_radius = lr, !.loop_angle = la, !.curve = cv] :
        i \in {0, 1}, lr \in {I(30), I(10)}, la \in LoopAngles, cv \in BOOLEAN}
StraightEdges == {Edge(0, 1), Edge(1, 0)}
CurvedEdges ==
    {[e EXCEPT !.curve = TRUE, !.curvature = k] : e \in StraightEdges, k \in Curvatures}
OneEdgeInputs ==
    {Decorated(e, directed, weight, offset, text_size) :
        e \in LoopEdges \cup StraightEdges \cup CurvedEdges, directed \in BOOLEAN,
        weight \in Weights, offset \in Offsets, text_size \in TextSizes}

InitEdge ==
    /\ \E p1 \in EdgePositions, e \in OneEdgeInputs, style \in GraphStyles :
          graph = [style EXCEPT
                      !.vertices = << Vertex(PosA, "A", None, None, None, I(20), None, None),
                                      Vertex(p1, "B", None, None, None, None, None, None) >>,
                      !.edges = <<e>>]
    /\ ctx = <<>>
    /\ gerr = "undrawn"
    /\ symbol = NewSymbolObject("Buffer", VI(100, 100), I(50), None, FALSE, <<>>)
    /\ ret = NoCall
    /\ FORMULA_INDEX = 0
    /\ requests = <<>>
    /\ lastcall = [op |-> "none"]
    /\ connector = None
    /\ outcome = [op |-> "none"]

SpecEdge == InitEdge /\ [][DrawGraph]_vars

---------------------------------------------------------------------------
(* generativepy's Tween, as tween.py and formula.py call it *)

FrameRate == 4

\* int(time * frame_rate): the frame a time in seconds falls on
Floor(q) == q.n \div q.d
FrameOf(time) == Floor(Mul(time, I(FrameRate)))

\* Tween(value)
Tween(value) == [frames |-> <<>>, previous |-> value]

\* Tween.wait(time): hold the value up to the absolute time
Tween_wait(tw, time) ==
    [tw EXCEPT !.frames = tw.frames \o
        [i \in 1..(FrameOf(time) - Len(tw.frames)) |-> tw.previous]]

\* the frames of a linear move from previous to value in count frames
Ramp(previous, value, count) ==
    [i \in 1..count |-> Add(previous, Mul(Q(i, count), Sub(value, previous)))]

\* Tween.to_d(value, duration): move to value over the duration
Tween_to_d(tw, value, duration) ==
    [frames |-> tw.frames \o Ramp(tw.previous, value, FrameOf(duration)),
     previous |-> value]

\* Tween.get(frame)
Tween_get(tw, frame) ==
    IF frame >= Len(tw.frames) THEN tw.previous ELSE tw.frames[frame + 1]

\* Tween.set(value): the value changes at the current time
Tween_set(tw, value) == [tw EXCEPT !.previous = value]

---------------------------------------------------------------------------
(* formula.py *)

MaxFormulas == 3
MaxIndex == 5

\* the names, mutated: "formula" + str(i), whatever the counter
names_restart(index, formula_count) ==
    [i \in 1..formula_count |-> "formula" \o StrNat(i - 1)]

\* names = ["formula" + str(_FORMULA_INDEX + i) for i in range(formula_count)]
names(index, formula_count) ==
    [i \in 1..formula_count |-> "formula" \o StrNat(index + i - 1)]

\* the calls of rasterise_formula in the list comprehension, in order; index
\* is the counter value the name was built from
Rasterise(index, formula_count) ==
    [i \in 1..formula_count |->
        [name |-> names(index, formula_count)[i], index |-> index + i - 1]]

\* rasterise_formula returns (image, size): the image of the name it was
\* given, and a size that is the renderer's
Image(name) == [png |-> name]

\* sum([size[1] for size in sizes])
RECURSIVE SumHeights(_)
SumHeights(sizes) ==
    IF sizes = <<>> THEN Zero ELSE Add(Head(sizes)[2], SumHeights(Tail(sizes)))

\* max([size[0] for size in sizes]) of a non-empty list
RECURSIVE MaxWidth(_)
MaxWidth(sizes) ==
    IF Len(sizes) = 1 THEN sizes[1][1]
    ELSE IF Lt(MaxWidth(Tail(sizes)), sizes[1][1]) THEN sizes[1][1]
    ELSE MaxWidth(Tail(sizes))

\* the height, mutated: gaps between the formulas only
ImageHeightInnerGaps(sizes, formula_count, gap) ==
    Add(SumHeights(sizes), Mul(I(formula_count - 1), gap))

\* height = sum([size[1] for size in sizes]) + (formula_count + 1) * gap
ImageHeight(sizes, formula_count, gap) ==
    Add(SumHeights(sizes), Mul(I(formula_count + 1), gap))

\* width = max([size[0] for size in sizes]) + 2 * gap
ImageWidth(sizes, gap) == Add(MaxWidth(sizes), Mul(I(2), gap))

\* if padwidth is not None and width < padwidth: width = padwidth
Padded(width, padwidth) ==
    IF padwidth # None /\ Lt(width, padwidth) THEN padwidth ELSE width

\* the step of ypos, mutated: ypos += size[1]
NextYposAbutting(ypos, size, gap) == Add(ypos, size[2])

\* ypos += size[1] + gap
NextYpos(ypos, size, gap) == Add(ypos, Add(size[2], gap))

\* the loop of draw: Image(ctx).of_file_position(image, (gap, ypos)).paint()
RECURSIVE Paint(_, _, _, _, _)
Paint(images, sizes, gap, ypos, i) ==
    IF i > Len(sizes) THEN <<>>
    ELSE << [op |-> "Image", image |-> images[i], position |-> <<gap, ypos>>,
             size |-> sizes[i]] >>
         \o Paint(images, sizes, gap, NextYpos(ypos, sizes[i], gap), i + 1)

\* make_image(filepath, draw, width, height): the canvas made and what
\* draw paints on it, and the pair returned
ImageMade(first, sizes, gap, padwidth, w, h) ==
    [op |-> "make_formulas_png", exc |-> "none", first |-> first, sizes |-> sizes,
     gap |-> gap, padwidth |-> padwidth, canvas |-> <<w, h>>,
     painted |-> Paint([i \in 1..Len(sizes) |-> Image(names(first, Len(sizes))[i])],
                       sizes, gap, gap, 1),
     ret |-> <<w, h>>]

FormulasRaised(exc, first, sizes, gap, padwidth) ==
    [op |-> "make_formulas_png", exc |-> exc, first |-> first, sizes |-> sizes,
     gap |-> gap, padwidth |-> padwidth, canvas |-> None, painted |-> <<>>, ret |-> None]

\* make_formulas_png from line 48 on, every raster made; images, sizes =
\* zip(*[]) raises ValueError when the list is empty
make_formulas_png(first, sizes, gap, padwidth) ==
    IF sizes = <<>> THEN FormulasRaised("ValueError", first, sizes, gap, padwidth)
    ELSE ImageMade(first, sizes, gap, padwidth,
                   Padded(ImageWidth(sizes, gap), padwidth),
                   ImageHeight(sizes, Len(sizes), gap))

\* _FORMULA_INDEX += formula_count, mutated: the counter moves once the
\* rasters are made, and stays if one of them raised
CounterAfterRasters(index, formula_count, call) ==
    IF call.exc = "Exception" THEN index ELSE index + formula_count

\* _FORMULA_INDEX += formula_count (1 in the two classes): the counter after
\* the call, which moved before the first raster and whatever came of them
CounterAfter(index, formula_count, call) == index + formula_count

\* the sizes rasterise_formula returns: (74, 74) in test_single_formula
RasterSizes == {<<I(74), I(74)>>, <<I(364), I(41)>>}
Gaps == {I(50), I(30), I(0)}
Padwidths == {None, I(100), I(500)}

InitFormula ==
    /\ FORMULA_INDEX = 0
    /\ requests = <<>>
    /\ lastcall = [op |-> "none"]
    /\ connector = None
    /\ outcome = [op |-> "none"]
    /\ graph = [vertices |-> <<>>, edges |-> <<>>]
    /\ ctx = <<>>
    /\ gerr = "none"
    /\ symbol = NewSymbolObject("Buffer", VI(100, 100), I(50), None, FALSE, <<>>)
    /\ ret = NoCall

\* make_formulas_png(filepath, formulas, color, gap=..., padwidth=...): the
\* counter moves past every name before the first raster is made; the
\* raster number fail (if not 0) raises
MakeFormulasPng ==
    /\ \E formula_count \in 0..MaxFormulas :
          /\ FORMULA_INDEX + formula_count <= MaxIndex
          /\ \E fail \in 0..formula_count :
                /\ IF fail # 0
                   THEN /\ requests' = requests
                                       \o SubSeq(Rasterise(FORMULA_INDEX, formula_count), 1, fail)
                        /\ lastcall' = [op |-> "make_formulas_png", exc |-> "Exception",
                                        first |-> FORMULA_INDEX, count |-> formula_count]
                   ELSE /\ requests' = requests \o Rasterise(FORMULA_INDEX, formula_count)
                        /\ \E sizes \in [1..formula_count -> RasterSizes],
                              gap \in Gaps, padwidth \in Padwidths :
                              lastcall' = make_formulas_png(FORMULA_INDEX, sizes, gap, padwidth)
                /\ FORMULA_INDEX' = CounterAfter(FORMULA_INDEX, formula_count, lastcall')
    /\ UNCHANGED <<symvars, graphvars, othervars>>

\* formula_zoom_in.__init__, lines 102-106: the object made once the raster
\* exists
formula_zoom_in(image, size, position, appear_time, scale_duration,
                initial_scale, disappear_time, fade_duration) ==
    [image |-> image, size |-> size, position |-> position,
     scale |-> Tween_to_d(Tween_wait(Tween(initial_scale), appear_time),
                          I(1), scale_duration),
     alpha |-> IF disappear_time # None
               THEN Tween_to_d(Tween_wait(Tween_set(Tween_wait(Tween(Zero), appear_time), I(1)),
                                          disappear_time),
                               Zero, fade_duration)
               ELSE Tween_set(Tween_wait(Tween(Zero), appear_time), I(1))]

\* the image show paints for the scale of the frame
ZoomImage(self, scale) ==
    <<[op |-> "paint", image |-> self.image, scale |-> scale,
       position |-> <<Sub(self.position[1], Div(Mul(self.size[1], scale), I(2))),
                      Sub(self.position[2], Div(Mul(self.size[2], scale), I(2)))>>]>>

\* formula_zoom_in.show(ctx, fn): what it adds to the context
formula_zoom_in_show(self, fn) ==
    IF ~IsZero(Tween_get(self.alpha, fn))
    THEN ZoomImage(self, Tween_get(self.scale, fn))
    ELSE <<>>

MaxFrame == 16
AppearTimes == {I(1)}
DisappearTimes == {None, I(2)}
FadeDurations == {Zero, Q(1, 4), I(1)}

\* formula_zoom_in(formula, position, color, ...): lines 98-106
FormulaZoomIn ==
    /\ FORMULA_INDEX + 1 <= MaxIndex
    /\ requests' = requests \o Rasterise(FORMULA_INDEX, 1)
    /\ \/ lastcall' = [op |-> "formula_zoom_in", exc |-> "Exception", first |-> FORMULA_INDEX]
       \/ \E appear_time \in AppearTimes, disappear_time \in DisappearTimes,
             fade_duration \in FadeDurations :
             lastcall' = [op |-> "formula_zoom_in", exc |-> "none", first |-> FORMULA_INDEX,
                          appear_time |-> appear_time, disappear_time |-> disappear_time,
                          fade_duration |-> fade_duration,
                          self |-> formula_zoom_in(
                                      Image(names(FORMULA_INDEX, 1)[1]), <<I(74), I(74)>>,
                                      <<I(100), I(100)>>, appear_time, I(1), Q(7, 10),
                                      disappear_time, fade_duration)]
    /\ FORMULA_INDEX' = CounterAfter(FORMULA_INDEX, 1, lastcall')
    /\ UNCHANGED <<symvars, graphvars, othervars>>

\* formula.show(ctx, fn) on the formula_zoom_in object made last
FormulaShow ==
    /\ lastcall.op = "formula_zoom_in"
    /\ lastcall.exc = "none"
    /\ \E fn \in 0..MaxFrame :
          outcome' = [op |-> "show", fn |-> fn, of |-> lastcall,
                      log |-> formula_zoom_in_show(lastcall.self, fn)]
    /\ UNCHANGED <<connector, symvars, graphvars, formulavars>>

\* formula_fade_in.__init__, lines 184-187: the object made once the raster
\* exists
formula_fade_in(image, size, position, appear_time, appear_duration,
                disappear_time, fade_duration) ==
    [image |-> image, size |-> size, position |-> position,
     alpha |-> IF disappear_time # None
               THEN Tween_to_d(Tween_wait(Tween_to_d(Tween_wait(Tween(Zero), appear_time),
                                                     I(1), appear_duration),
                                          disappear_time),
                               Zero, fade_duration)
               ELSE Tween_to_d(Tween_wait(Tween(Zero), appear_time), I(1), appear_duration)]

\* formula_fade_in.show(ctx, fn), line 228: the image is placed and never
\* painted, whatever the frame
formula_fade_in_show(self, fn) ==
    <<[op |-> "of_file_position", image |-> self.image, position |-> self.position]>>

\* formula_fade_in(formula, position, color, ...): lines 180-187
FormulaFadeIn ==
    /\ FORMULA_INDEX + 1 <= MaxIndex
    /\ requests' = requests \o Rasterise(FORMULA_INDEX, 1)
    /\ \/ lastcall' = [op |-> "formula_fade_in", exc |-> "Exception", first |-> FORMULA_INDEX]
       \/ \E disappear_time \in DisappearTimes :
             lastcall' = [op |-> "formula_fade_in", exc |-> "none", first |-> FORMULA_INDEX,
                          self |-> formula_fade_in(
                                      Image(names(FORMULA_INDEX, 1)[1]), <<I(74), I(74)>>,
                                      <<I(100), I(100)>>, I(1), I(1), disappear_time, I(1))]
    /\ FORMULA_INDEX' = CounterAfter(FORMULA_INDEX, 1, lastcall')
    /\ UNCHANGED <<symvars, graphvars, othervars>>

\* formula_fade_in.show(ctx, fn) on the formula_fade_in object made last
FadeShow ==
    /\ lastcall.op = "formula_fade_in"
    /\ lastcall.exc = "none"
    /\ \E fn \in 0..MaxFrame :
          outcome' = [op |-> "show", fn |-> fn, of |-> lastcall,
                      log |-> formula_fade_in_show(lastcall.self, fn)]
    /\ UNCHANGED <<connector, symvars, graphvars, formulavars>>

\* at, mutated: the formula is also given the size of an empty image
formula_at_emptied(self, position) ==
    [self EXCEPT !.position = position, !.size = <<Zero, Zero>>]

\* formula_zoom_in.at(position), formula_fade_in.at(position): the object
\* after the call, which is also what the call returns
formula_at(self, position) == [self EXCEPT !.position = position]

FormulaPositions == {<<I(100), I(100)>>, <<I(200), I(50)>>}

\* formula.at(position) on the object made last
FormulaAt ==
    /\ lastcall.op \in {"formula_zoom_in", "formula_fade_in"}
    /\ lastcall.exc = "none"
    /\ \E position \in FormulaPositions :
          /\ lastcall' = [lastcall EXCEPT !.self = formula_at(lastcall.self, position)]
          /\ outcome' = [op |-> "at", position |-> position]
    /\ UNCHANGED <<FORMULA_INDEX, requests, connector, symvars, graphvars>>

NextFormula ==
    \/ MakeFormulasPng
    \/ FormulaZoomIn
    \/ FormulaFadeIn

SpecFormula == InitFormula /\ [][NextFormula]_vars

NextZoom == FormulaZoomIn \/ FormulaShow \/ FormulaFadeIn \/ FadeShow \/ FormulaAt

SpecZoom == InitFormula /\ [][NextZoom]_vars

---------------------------------------------------------------------------
(* diagrams/connectors.py, and the draw methods of diagrams/logicgates.py *)

\* .fill(self.fillparams.pattern, self.fillparams.fill_rule)
\* .stroke(self.strokeparams.pattern, self.strokeparams.line_width, ...)
FilledAndStroked(shape, self) ==
    [shape |-> shape,
     fill |-> [pattern |-> self.fillparams.pattern, fill_rule |-> self.fillparams.fill_rule],
     stroke |-> [pattern |-> self.strokeparams.pattern,
                 line_width |-> self.strokeparams.line_width,
                 dash |-> self.strokeparams.dash, cap |-> self.strokeparams.cap,
                 join |-> self.strokeparams.join,
                 miter_limit |-> self.strokeparams.miter_limit]]

\* .stroke(...) alone
Stroked(shape, self) ==
    [shape |-> shape, fill |-> None,
     stroke |-> [pattern |-> self.strokeparams.pattern,
                 line_width |-> self.strokeparams.line_width,
                 dash |-> self.strokeparams.dash, cap |-> self.strokeparams.cap,
                 join |-> self.strokeparams.join,
                 miter_limit |-> self.strokeparams.miter_limit]]

\* .fill(...) alone
Filled(shape, self) ==
    [shape |-> shape,
     fill |-> [pattern |-> self.fillparams.pattern, fill_rule |-> self.fillparams.fill_rule],
     stroke |-> None]

\* if self.invert: Circle(ctx).of_center_radius(bubble_centre, self.bubble_radius)
Bubble(self, h, bubble_radius) ==
    IF self.invert
    THEN << FilledAndStroked(
               [op |-> "Circle",
                center |-> VAdd(self.position, V(Add(self.width, bubble_radius), Div(h, I(2)))),
                radius |-> bubble_radius], self) >>
    ELSE <<>>

\* the curved outline of Or and Xor: a, and the three bezier segments
OrOutline(a, w, h) ==
    << a,
       <<VAdd(a, V(Mul(Q(1, 5), w), Mul(Q(1, 4), h))), VAdd(a, V(Mul(Q(1, 5), w), Mul(Q(3, 4), h))),
         VAdd(a, V(Zero, h))>>,
       <<VAdd(a, V(Mul(Q(2, 5), w), h)), VAdd(a, V(Mul(Q(4, 5), w), Mul(Q(4, 5), h))),
         VAdd(a, V(w, Div(h, I(2))))>>,
       <<VAdd(a, V(Mul(Q(4, 5), w), Mul(Q(1, 5), h))), VAdd(a, V(Mul(Q(2, 5), w), Zero)), a>> >>

\* the body each draw method paints before the bubble
Body(self, a, w, h) ==
    CASE self.kind = "Buffer" ->
            << FilledAndStroked([op |-> "Polygon",
                   points |-> <<a, VAdd(a, V(Zero, h)), VAdd(a, V(w, Div(h, I(2))))>>], self) >>
      [] self.kind = "And" ->
            << FilledAndStroked([op |-> "LineAndArc", start |-> VAdd(a, V(Zero, h)), end |-> a,
                   center |-> VAdd(a, V(Div(h, I(2)), Div(h, I(2)))),
                   radius |-> Div(h, I(2))], self) >>
      [] self.kind = "Or" ->
            << FilledAndStroked([op |-> "Polygon", points |-> OrOutline(a, w, h)], self) >>
      [] self.kind = "Xor" ->
            << FilledAndStroked([op |-> "Polygon", points |-> OrOutline(a, w, h)], self),
               Stroked([op |-> "OpenPolygon", points |-> SubSeq(OrOutline(a, w, h), 1, 2),
                        translate |-> V(Mul(Q(-1, 5), w), Zero)], self) >>
      [] self.kind = "BoxItem" ->
            << FilledAndStroked([op |-> "Rectangle", corner |-> a, width |-> w,
                                 height |-> h], self) >>

SymbolDrawn(self, h, bubble_radius) ==
    [exc |-> "none", log |-> Body(self, self.position, self.width, h)
                             \o Bubble(self, h, bubble_radius)]

\* Buffer.draw, And.draw, Or.draw, Xor.draw, BoxItem.draw
Symbol_draw(self) ==
    SymbolDrawn(self, height(self.fixed_height, self.width), Div(self.width, I(10)))

\* Connector(start, end): __init__ assigns start and end and nothing else
Connector(start, end) == [class |-> "Connector", start |-> start, end |-> end]

\* the step, mutated: the fraction is measured back from the end point
ElbowPointsFromEnd(start, end, at, horizontal) ==
    IF horizontal
    THEN << V(Sub(end.x, Mul(Sub(end.x, start.x), at)), start.y),
            V(Sub(end.x, Mul(Sub(end.x, start.x), at)), end.y) >>
    ELSE << V(start.x, Sub(end.y, Mul(Sub(end.y, start.y), at))),
            V(end.x, Sub(end.y, Mul(Sub(end.y, start.y), at))) >>

\* the step of an ElbowConnector at the fraction position of the way
ElbowPoints(start, end, at, horizontal) ==
    IF horizontal
    THEN << V(Add(start.x, Mul(Sub(end.x, start.x), at)), start.y),
            V(Add(start.x, Mul(Sub(end.x, start.x), at)), end.y) >>
    ELSE << V(start.x, Add(start.y, Mul(Sub(end.y, start.y), at))),
            V(end.x, Add(start.y, Mul(Sub(end.y, start.y), at))) >>

\* ElbowConnector(start, end, position, horizontal): Connector.__init__ is
\* not called
ElbowConnector(start, end, at, horizontal) ==
    [class |-> "ElbowConnector", start |-> start, end |-> end,
     p1 |-> ElbowPoints(start, end, at, horizontal)[1],
     p2 |-> ElbowPoints(start, end, at, horizontal)[2]]

\* Connection(position, radius)
Connection(position, radius) ==
    [class |-> "Connection", position |-> position, radius |-> radius]

\* hasattr(self, name): an attribute exists once something assigned it
HasAttr(self, name) == name \in DOMAIN self

\* Connector.strokestyle(pattern, line_width): self.strokeparams = ...
Connector_strokestyle(self, pattern, line_width) ==
    [f \in DOMAIN self \cup {"strokeparams"} |->
        IF f # "strokeparams" THEN self[f]
        ELSE IF pattern = green_stroke THEN pattern
        ELSE StrokeParameters(pattern, line_width, None, Const("SQUARE"), Const("MITER"), None)]

\* Connector.fillstyle(pattern, fill_rule): self.fillparams = ...
Connector_fillstyle(self, pattern, fill_rule) ==
    [f \in DOMAIN self \cup {"fillparams"} |->
        IF f # "fillparams" THEN self[f]
        ELSE IF pattern = grey_fill THEN pattern
        ELSE FillParameters(pattern, fill_rule)]

AttributeError == [exc |-> "AttributeError", log |-> <<>>]

\* the shape a connector's draw builds before it reads the style
ConnectorShape(self) ==
    CASE self.class = "Connector" -> [op |-> "Line", start |-> self.start, end |-> self.end]
      [] self.class = "ElbowConnector" ->
            [op |-> "OpenPolygon", points |-> <<self.start, self.p1, self.p2, self.end>>]
      [] self.class = "Connection" ->
            [op |-> "Circle", center |-> self.position, radius |-> self.radius]

\* Connector.draw, ElbowConnector.draw (stroke only) and Connection.draw
\* (fill only): reading self.strokeparams or self.fillparams raises
\* AttributeError when the setter was never called
Connector_draw(self) ==
    IF self.class = "Connection"
    THEN IF ~HasAttr(self, "fillparams") THEN AttributeError
         ELSE [exc |-> "none", log |-> << Filled(ConnectorShape(self), self) >>]
    ELSE IF ~HasAttr(self, "strokeparams") THEN AttributeError
         ELSE [exc |-> "none", log |-> << Stroked(ConnectorShape(self), self) >>]

ConnectorInputs ==
    {Connector(VI(100, 100), VI(300, 200)),
     ElbowConnector(VI(100, 100), VI(300, 200), Q(1, 2), TRUE),
     ElbowConnector(VI(100, 100), VI(300, 200), Q(1, 4), FALSE),
     Connection(VI(200, 200), I(5))}

\* Connector(...), ElbowConnector(...) or Connection(...), on a clean page
NewConnector ==
    /\ outcome.op = "none"
    /\ connector' \in ConnectorInputs
    /\ UNCHANGED <<outcome, symvars, graphvars, formulavars>>

\* connector.strokestyle(Color("red"), 2) / connector.strokestyle(green_stroke)
ConnectorStrokestyle ==
    /\ outcome.op = "none"
    /\ connector # None
    /\ \E pattern \in {Color("red"), green_stroke} :
          connector' = Connector_strokestyle(connector, pattern, I(2))
    /\ UNCHANGED <<outcome, symvars, graphvars, formulavars>>

\* connector.fillstyle(Color("red")) / connector.fillstyle(grey_fill)
ConnectorFillstyle ==
    /\ outcome.op = "none"
    /\ connector # None
    /\ \E pattern \in {Color("red"), grey_fill} :
          connector' = Connector_fillstyle(connector, pattern, None)
    /\ UNCHANGED <<outcome, symvars, graphvars, formulavars>>

\* connector.draw(ctx)
DrawConnector ==
    /\ outcome.op = "none"
    /\ connector # None
    /\ \E r \in {Connector_draw(connector)} :
          outcome' = [op |-> "draw", of |-> "connector", exc |-> r.exc, log |-> r.log]
    /\ UNCHANGED <<connector, symvars, graphvars, formulavars>>

\* gate.draw(ctx)
DrawSymbol ==
    /\ outcome.op = "none"
    /\ \E r \in {Symbol_draw(symbol)} :
          outcome' = [op |-> "draw", of |-> "symbol", exc |-> r.exc, log |-> r.log]
    /\ UNCHANGED <<connector, symvars, graphvars, formulavars>>

\* the symbol's setters, on a clean page
DiagramFillstyle == outcome.op = "none" /\ Fillstyle
DiagramStrokestyle == outcome.op = "none" /\ Strokestyle

\* the next frame: a clean page
NewPage ==
    /\ outcome.op # "none"
    /\ outcome' = [op |-> "none"]
    /\ UNCHANGED <<connector, symvars, graphvars, formulavars>>

\* gate = Buffer(...) / And(...) / Or(...) / Xor(...) / BoxItem(...), plain or
\* inverting, and no connector yet
InitDiagram ==
    /\ \E kind \in Kinds, wh \in {<<I(50), None>>, <<I(50), I(80)>>}, invert \in BOOLEAN :
          symbol = NewSymbolObject(kind, VI(100, 100), wh[1], wh[2],
                                   invert /\ kind # "BoxItem", <<2, 1, 0, 0>>)
    /\ ret = NoCall
    /\ graph = [vertices |-> <<>>, edges |-> <<>>]
    /\ ctx = <<>>
    /\ gerr = "none"
    /\ FORMULA_INDEX = 0
    /\ requests = <<>>
    /\ lastcall = [op |-> "none"]
    /\ connector = None
    /\ outcome = [op |-> "none"]

NextDiagram ==
    \/ DiagramFillstyle
    \/ DiagramStrokestyle
    \/ NewConnector
    \/ ConnectorStrokestyle
    \/ ConnectorFillstyle
    \/ DrawConnector
    \/ DrawSymbol
    \/ NewPage

SpecDiagram == InitDiagram /\ [][NextDiagram]_vars

---------------------------------------------------------------------------
(* ElbowConnector on its own: construction, strokestyle, draw *)

ElbowEnds == {VI(200, 150), VI(50, 150), VI(200, 40), VI(100, 150), VI(200, 100)}
ElbowSteps == {Zero, Q(3, 10), Q(1, 2), Q(9, 10), I(1), Q(3, 2)}

InitElbow ==
    /\ connector = None
    /\ outcome = [op |-> "none"]
    /\ symbol = NewSymbolObject("Buffer", VI(100, 100), I(50), None, FALSE, <<>>)
    /\ ret = NoCall
    /\ graph = [vertices |-> <<>>, edges |-> <<>>]
    /\ ctx = <<>>
    /\ gerr = "none"
    /\ FORMULA_INDEX = 0
    /\ requests = <<>>
    /\ lastcall = [op |-> "none"]

\* connector = ElbowConnector(a, b, position, horizontal), the call kept in
\* outcome
NewElbow ==
    /\ \E end \in ElbowEnds, at \in ElbowSteps, horizontal \in BOOLEAN :
          /\ connector' = ElbowConnector(VI(100, 100), end, at, horizontal)
          /\ outcome' = [op |-> "ElbowConnector", start |-> VI(100, 100), end |-> end,
                         position |-> at, horizontal |-> horizontal]
    /\ UNCHANGED <<symvars, graphvars, formulavars>>

\* connector.strokestyle(Color("red"), 2) / connector.strokestyle(green_stroke)
ElbowStrokestyle ==
    /\ outcome.op = "ElbowConnector"
    /\ \E pattern \in {Color("red"), green_stroke} :
          connector' = Connector_strokestyle(connector, pattern, I(2))
    /\ UNCHANGED <<outcome, symvars, graphvars, formulavars>>

\* connector.draw(ctx)
DrawElbow ==
    /\ outcome.op = "ElbowConnector"
    /\ \E r \in {Connector_draw(connector)} :
          outcome' = [op |-> "draw", of |-> "elbow", made |-> outcome,
                      exc |-> r.exc, log |-> r.log]
    /\ UNCHANGED <<connector, symvars, graphvars, formulavars>>

NextElbow == NewElbow \/ ElbowStrokestyle \/ DrawElbow

SpecElbow == InitElbow /\ [][NextElbow]_vars

---------------------------------------------------------------------------
(* geomutils.py: text_align_for_angle *)

\* An angle in radians is the rational a that stands for a * pi.
\* math.degrees(angle)
Degrees(angle) == Mul(angle, I(180))

\* lines 135-140: valign from the angle in degrees
VAlign(angle) ==
    IF Lt(I(5), angle) /\ Lt(angle, I(175)) THEN "BOTTOM"
    ELSE IF Lt(angle, I(-5)) /\ Lt(I(-175), angle) THEN "TOP"
    ELSE "MIDDLE"

\* lines 142-147: halign from the angle in degrees
HAlign(angle) ==
    IF Lt(I(-85), angle) /\ Lt(angle, I(85)) THEN "LEFT"
    ELSE IF Lt(I(95), angle) \/ Lt(angle, I(-95)) THEN "RIGHT"
    ELSE "CENTER"

\* text_align_for_angle, mutated: angle = math.degrees(angle)
text_align_for_angle_unnegated(angle) ==
    <<HAlign(Degrees(angle)), VAlign(Degrees(angle))>>

\* text_align_for_angle(angle): angle = -math.degrees(angle), then the pair
text_align_for_angle(angle) ==
    <<HAlign(Neg(Degrees(angle))), VAlign(Neg(Degrees(angle)))>>

\* the offset angles: every whole degree of [-180, 180], as Vector.angle
\* gives them to label_line
OffsetAngles == {Q(k, 180) : k \in -180..180}

InitGeom ==
    /\ outcome = [op |-> "none"]
    /\ connector = None
    /\ symbol = NewSymbolObject("Buffer", VI(100, 100), I(50), None, FALSE, <<>>)
    /\ ret = NoCall
    /\ graph = [vertices |-> <<>>, edges |-> <<>>]
    /\ ctx = <<>>
    /\ gerr = "none"
    /\ FORMULA_INDEX = 0
    /\ requests = <<>>
    /\ lastcall = [op |-> "none"]

\* halign, valign = text_align_for_angle(angle)
TextAlignForAngle ==
    /\ \E angle \in OffsetAngles :
          outcome' = [op |-> "text_align_for_angle", angle |-> angle,
                      ret |-> text_align_for_angle(angle)]
    /\ UNCHANGED <<connector, symvars, graphvars, formulavars>>

SpecGeom == InitGeom /\ [][TextAlignForAngle]_vars

---------------------------------------------------------------------------
(* tween.py: tween_alpha_on and tween_alpha_off, with the calls they make
   on generativepy's Tween *)

MaxTimes == 3

\* for t, v in zip(times, cycle((first, second))): tw.wait(t).to_d(v, fade)
RECURSIVE TweenLoop(_, _, _, _, _, _)
TweenLoop(tw, times, i, first, second, fade) ==
    IF i > Len(times) THEN tw
    ELSE TweenLoop(Tween_to_d(Tween_wait(tw, times[i]),
                              IF i % 2 = 1 THEN first ELSE second, fade),
                   times, i + 1, first, second, fade)

\* tween_alpha_on, mutated: the extra times cycle (on, off)
tween_alpha_on_recycled(time, times, off, on, fade) ==
    TweenLoop(Tween_to_d(Tween_wait(Tween(off), time), on, fade),
              times, 1, on, off, fade)

\* tween_alpha_on(time, *times, off, on, fade)
tween_alpha_on(time, times, off, on, fade) ==
    TweenLoop(Tween_to_d(Tween_wait(Tween(off), time), on, fade),
              times, 1, off, on, fade)

\* tween_alpha_off(time, *times, off, on, fade)
tween_alpha_off(time, times, off, on, fade) ==
    TweenLoop(Tween_to_d(Tween_wait(Tween(on), time), off, fade),
              times, 1, on, off, fade)

\* the inputs of one call on a fresh tween: a first time, extra times each later than the one before by
\* at least the fade time, as the docstring requires
TweenTimes == {Q(1, 2), I(1), I(2)}
TweenGaps == {Q(1, 2), I(1), Q(3, 2)}
TweenFades == {Q(1, 2), I(1)}
TweenLevels == {<<Zero, I(1)>>, <<Q(1, 5), Q(4, 5)>>}

RECURSIVE TimesAfter(_, _, _)
TimesAfter(time, gaps, i) ==
    IF i > Len(gaps) THEN <<>>
    ELSE <<Add(time, gaps[i])>> \o TimesAfter(Add(time, gaps[i]), gaps, i + 1)

GapSeqs(fade) ==
    UNION {[1..n -> {g \in TweenGaps : Le(fade, g)}] : n \in 0..MaxTimes}

TweenMade(op, time, times, levels, fade, tw) ==
    [op |-> op, time |-> time, times |-> times, off |-> levels[1],
     on |-> levels[2], fade |-> fade, tw |-> tw]

TweenAlphaOn ==
    /\ outcome.op = "none"
    /\ \E time \in TweenTimes, fade \in TweenFades, levels \in TweenLevels :
         \E gaps \in GapSeqs(fade) :
           \E times \in {TimesAfter(time, gaps, 1)} :
              outcome' = TweenMade("tween_alpha_on", time, times, levels, fade,
                            tween_alpha_on(time, times, levels[1], levels[2], fade))
    /\ UNCHANGED <<connector, symvars, graphvars, formulavars>>

TweenAlphaOff ==
    /\ outcome.op = "none"
    /\ \E time \in TweenTimes, fade \in TweenFades, levels \in TweenLevels :
         \E gaps \in GapSeqs(fade) :
           \E times \in {TimesAfter(time, gaps, 1)} :
              outcome' = TweenMade("tween_alpha_off", time, times, levels, fade,
                            tween_alpha_off(time, times, levels[1], levels[2], fade))
    /\ UNCHANGED <<connector, symvars, graphvars, formulavars>>

NextTween == TweenAlphaOn \/ TweenAlphaOff

SpecTween == InitGeom /\ [][NextTween]_vars

---------------------------------------------------------------------------
(* Claims about get_connector, under SpecSymbol *)

number_of_sides(self) == Len(self.connectors)
points_on_side(self, side) == Len(self.connectors[side + 1])

\* C1: get_connector(side, index) raises ValueError if and only if side is
\* outside [0, number_of_sides) or index is outside [0, points on that side);
\* a negative side or index never wraps around, and nothing else is raised.
C1_RaisesIffOutOfRange ==
    ret # NoCall =>
        /\ ret.exc \in {"none", "ValueError"}
        /\ ret.exc = "ValueError" <=>
              \/ ret.col < 0
              \/ ret.col >= number_of_sides(symbol)
              \/ ret.row < 0
              \/ ret.row >= points_on_side(symbol, ret.col)

\* side -1 of a BoxItem that has a bottom side with a point raised
C1_Witness ==
    /\ symbol.kind = "BoxItem"
    /\ Len(symbol.connectors[4]) > 0
    /\ ret.col = -1 /\ ret.row = 0
    /\ ret.exc = "ValueError"

\* C2: for every in-range (side, index), get_connector returns the symbol's
\* local connector offset for (side, index) plus the symbol's position.
C2_OffsetPlusPosition ==
    (ret # NoCall /\ ret.exc = "none") =>
        /\ ret.col \in 0..(number_of_sides(symbol) - 1)
        /\ ret.row \in 0..(points_on_side(symbol, ret.col) - 1)
        /\ VSub(ret.value, symbol.position) = symbol.connectors[ret.col + 1][ret.row + 1]

\* And((100, 100), 50).get_connector(0, 1) returned (100, 137.5)
C2_Witness ==
    /\ symbol.kind = "And" /\ symbol.position = VI(100, 100)
    /\ symbol.width = I(50) /\ symbol.fixed_height = None
    /\ ret.col = 0 /\ ret.row = 1
    /\ ret.exc = "none"
    /\ ret.value = V(I(100), Q(275, 2))

\* C3: get_connector is a pure lookup.  A call, whether it returns or
\* raises, leaves every field of the symbol unchanged, and so every call
\* made after it returns or raises exactly what it would have before it.
C3_PureLookup ==
    [][GetConnector =>
          /\ symbol' = symbol
          /\ \A c \in Cols, r \in Rows :
                LET before == get_connector(symbol, c, r)
                    after == get_connector(symbol', c, r)
                IN  after.exc = before.exc /\ after.value = before.value]_vars

\* a call returned on a symbol whose styles had both been set
C3_Witness ==
    /\ ret.exc = "none"
    /\ symbol.strokeparams = green_stroke
    /\ symbol.fillparams = FillParameters(Color("yellow"), None)

---------------------------------------------------------------------------
(* Claims about Graph.draw, under SpecGraph *)

\* C4: a completed Graph.draw has made the calls of every edge, in the order
\* the edges were added, before any call of a vertex, and then for each
\* vertex in the order added a circle followed by its label; for the graph
\* of test_default_graph these are four lines, then four circles each
\* followed by its label, twelve calls in all.
C4_EdgesBeforeVertices ==
    gerr = "none" =>
        LET ne == Cardinality({i \in 1..Len(ctx) : ctx[i].by[1] = "edge"})
            nv == Len(graph.vertices)
        IN  /\ Len(ctx) = ne + 2 * nv
            /\ \A i \in 1..ne : ctx[i].by[1] = "edge"
            /\ \A i \in 1..ne, j \in 1..ne : i < j => ctx[i].by[2] <= ctx[j].by[2]
            /\ \A e \in 1..Len(graph.edges) : \E i \in 1..ne : ctx[i].by = <<"edge", e - 1>>
            /\ \A v \in 1..nv :
                  /\ ctx[ne + 2 * v - 1].by = <<"vertex", v - 1>>
                  /\ ctx[ne + 2 * v - 1].call.op = "Circle"
                  /\ ctx[ne + 2 * v - 1].call.center = graph.vertices[v].position
                  /\ ctx[ne + 2 * v].by = <<"vertex", v - 1>>
                  /\ ctx[ne + 2 * v].call.op = "Text"
                  /\ ctx[ne + 2 * v].call.text = graph.vertices[v].label
                  /\ ctx[ne + 2 * v].call.position = graph.vertices[v].position
            /\ (graph.vertices = SubSeq(ScenarioItems, 1, 4)
                /\ graph.edges = SubSeq(ScenarioItems, 5, 8)) =>
                  /\ Len(ctx) = 12
                  /\ [i \in 1..4 |-> <<ctx[i].call.op, ctx[i].call.start, ctx[i].call.end>>]
                     = << <<"Line", VI(100, 100), VI(100, 300)>>,
                          <<"Line", VI(100, 300), VI(300, 200)>>,
                          <<"Line", VI(200, 50), VI(100, 100)>>,
                          <<"Line", VI(300, 200), VI(200, 50)>> >>
                  /\ [i \in 5..12 |-> ctx[i].call.op]
                     = [i \in 5..12 |-> IF i % 2 = 1 THEN "Circle" ELSE "Text"]

C4_Witness ==
    /\ gerr = "none"
    /\ graph.vertices = SubSeq(ScenarioItems, 1, 4)
    /\ graph.edges = SubSeq(ScenarioItems, 5, 8)
    /\ Len(ctx) = 12
    /\ ctx[4].by = <<"edge", 3>>
    /\ ctx[5].by = <<"vertex", 0>>

\* C10: in every call a Graph.draw has made, each style value is the one
\* given to the constructor of the vertex or edge that made the call if one
\* was given (whatever its value, zero included), and the graph's default
\* otherwise; so no override reaches the call of another item.
C10_OverrideOrDefault ==
    gerr # "undrawn" =>
        \A i \in 1..Len(ctx) :
            LET call == ctx[i].call
                item == IF ctx[i].by[1] = "vertex" THEN graph.vertices[ctx[i].by[2] + 1]
                        ELSE graph.edges[ctx[i].by[2] + 1]
                used(given, default) == IF given = None THEN default ELSE given
            IN  IF ctx[i].by[1] = "vertex"
                THEN IF call.op = "Circle"
                     THEN /\ call.stroke = used(item.fgcolor, graph.fgcolor)
                          /\ call.fill = used(item.bgcolor, graph.bgcolor)
                          /\ call.lw = used(item.lw, graph.lw)
                          /\ call.radius = used(item.radius, graph.radius)
                     ELSE /\ call.op = "Text"
                          /\ call.font = used(item.font, graph.font)
                          /\ call.size = used(item.text_size, graph.text_size)
                          /\ call.fill = used(item.fgcolor, graph.fgcolor)
                ELSE IF call.op = "Text"
                     THEN /\ call.font = used(item.font, graph.font)
                          /\ call.size = used(item.text_size, graph.text_size)
                          /\ call.fill = used(item.color, graph.fgcolor)
                     ELSE /\ call.op \in {"Line", "Circle", "Arc", "ParallelMarker"}
                          /\ call.stroke = used(item.color, graph.fgcolor)
                          /\ call.lw = used(item.lw, graph.lw)

C10_Witness ==
    /\ gerr = "none"
    /\ graph.lw = I(6)
    /\ \E i, j, k \in 1..Len(ctx) :
          /\ ctx[i].by[1] = "vertex" /\ ctx[i].call.op = "Circle"
          /\ graph.vertices[ctx[i].by[2] + 1].lw = I(0) /\ ctx[i].call.lw = I(0)
          /\ ctx[i].call.radius = I(50)
          /\ ctx[j].by[1] = "vertex" /\ ctx[j].call.op = "Circle"
          /\ ctx[j].by # ctx[i].by /\ ctx[j].call.lw = I(6) /\ ctx[j].call.radius = I(40)
          /\ ctx[k].by[1] = "edge" /\ ctx[k].call.op = "Line"
          /\ ctx[k].call.stroke = Color("orange.dark1") /\ ctx[k].call.lw = I(10)

---------------------------------------------------------------------------
(* Claims about Edge.draw, under SpecEdge *)

\* C6: for a curved edge between two distinct points with a curvature k that
\* is not zero and has |0.6 k| <= 1, the draw completes with an arc whose
\* centre c and radius, and the apex returned, satisfy
\* |p0 - c| = |p1 - c| = |apex - c| = |radius| (compared as squares) and
\* radius * 1.2 k = |p1 - p0|; the marker and the label are placed at that
\* apex.
C6_CircleInvariant ==
    LET e == graph.edges[1]
        p0 == PyIndex(graph.vertices, e.start).position
        p1 == PyIndex(graph.vertices, e.end).position
        feasible == /\ p0 # p1
                    /\ ~IsZero(e.curvature)
                    /\ Le(RAbs(Mul(Q(3, 5), e.curvature)), I(1))
    IN  (gerr # "undrawn" /\ e.start # e.end /\ e.curve /\ feasible) =>
            /\ gerr = "none"
            /\ ctx[1].by = <<"edge", 0>>
            /\ ctx[1].call.op = "Arc"
            /\ LET c == ctx[1].call.center
                   radius == ctx[1].call.radius
                   apex == arc_between_points(e, p0, p1, ctx[1].call.stroke,
                                              ctx[1].call.lw).apex
                   direction == VSub(p1, p0)
               IN  /\ Mul(radius, Mul(Q(6, 5), e.curvature)) = VLength(direction)
                   /\ Len2(VSub(p0, c)) = Sq(radius)
                   /\ Len2(VSub(p1, c)) = Sq(radius)
                   /\ Len2(VSub(apex, c)) = Sq(radius)
                   /\ \A i \in 1..Len(ctx) :
                         /\ (ctx[i].by[1] = "edge" /\ ctx[i].call.op = "Text")
                                => ctx[i].call.position = apex
                         /\ ctx[i].call.op = "ParallelMarker"
                                => /\ ctx[i].call.start = VSub(apex, direction)
                                   /\ ctx[i].call.end = VAdd(apex, direction)

C6_Witness ==
    /\ gerr = "none"
    /\ graph.edges[1].curve
    /\ graph.edges[1].start = 0
    /\ graph.edges[1].end = 1
    /\ graph.edges[1].curvature = Q(-7, 15)
    /\ graph.vertices[2].position = VI(400, 500)
    /\ graph.edges[1].directed
    /\ graph.edges[1].weight # None
    /\ ctx[1].call.op = "Arc"
    /\ ctx[1].call.radius = Q(-6250, 7)

\* C7: a loop edge is drawn as a circle of radius loop_radius whose centre
\* is the vertex centre plus (vertex_radius + 0.8 loop_radius) times the unit
\* vector of loop_angle, vertex_radius being the radius Edge.draw is given;
\* the apex, where the label is placed and on which the marker is centred,
\* is the loop centre plus loop_radius times the same unit vector; with
\* vertex radius 30, loop_radius 30 and loop_angle 0 the centre is the
\* vertex centre + (54, 0).
C7_LoopGeometry ==
    LET e == graph.edges[1]
        p0 == PyIndex(graph.vertices, e.start).position
        reach == Add(graph.radius, Mul(Q(4, 5), e.loop_radius))
    IN  (gerr # "undrawn" /\ e.start = e.end) =>
            /\ gerr = "none"
            /\ ctx[1].by = <<"edge", 0>>
            /\ ctx[1].call.op = "Circle"
            /\ ctx[1].call.radius = e.loop_radius
            /\ LET c == ctx[1].call.center
                   apex == VAdd(c, VScale(e.loop_angle, e.loop_radius))
               IN  /\ VSub(c, p0) = VScale(e.loop_angle, reach)
                   /\ Len2(VSub(c, p0)) = Sq(reach)
                   /\ Len2(VSub(apex, c)) = Sq(e.loop_radius)
                   /\ \A i \in 1..Len(ctx) :
                         /\ (ctx[i].by[1] = "edge" /\ ctx[i].call.op = "Text")
                                => ctx[i].call.position = apex
                         /\ ctx[i].call.op = "ParallelMarker"
                                => VDivS(VAdd(ctx[i].call.start, ctx[i].call.end), I(2)) = apex
                   /\ (graph.radius = I(30) /\ e.loop_radius = I(30) /\ e.loop_angle = Deg0)
                         => c = VAdd(p0, VI(54, 0))

C7_Witness ==
    /\ gerr = "none"
    /\ graph.edges[1].start = 1
    /\ graph.edges[1].end = 1
    /\ graph.vertices[2].position = PosB
    /\ graph.radius = I(30)
    /\ graph.edges[1].loop_radius = I(30)
    /\ graph.edges[1].loop_angle = Deg0
    /\ graph.edges[1].directed
    /\ graph.edges[1].weight # None
    /\ ctx[1].call.op = "Circle"
    /\ ctx[1].call.center = VI(154, 300)
    /\ ctx[3].call.position = VI(184, 300)

---------------------------------------------------------------------------
(* Claims about formula.py, under SpecFormula *)

\* C5: at every moment each rasterisation request so far was named
\* "formula<i>" with i below the counter, the i strictly increase in the
\* order of the requests (so the names differ pairwise), the requests of a
\* completed make_formulas_png have consecutive i from the counter value at
\* its call, in list order; and no step decreases the counter.
C5_DistinctIncreasingNames ==
    /\ [](/\ \A i \in 1..Len(requests) :
                /\ requests[i].name = "formula" \o StrNat(requests[i].index)
                /\ requests[i].index < FORMULA_INDEX
          /\ \A i \in 1..Len(requests), j \in 1..Len(requests) :
                i < j => /\ requests[i].index < requests[j].index
                         /\ requests[i].name # requests[j].name
          /\ (lastcall.op = "make_formulas_png" /\ lastcall.exc = "none") =>
                \A i \in 1..Len(lastcall.sizes) :
                    /\ requests[Len(requests) - Len(lastcall.sizes) + i].index
                          = lastcall.first + i - 1
                    /\ lastcall.painted[i].image.png
                          = requests[Len(requests) - Len(lastcall.sizes) + i].name)
    /\ [][FORMULA_INDEX' >= FORMULA_INDEX]_vars

C5_Witness ==
    /\ FORMULA_INDEX = 5
    /\ Len(requests) = 4
    /\ lastcall.op = "make_formulas_png"
    /\ lastcall.exc = "none"
    /\ lastcall.first = 2
    /\ Len(lastcall.sizes) = 3
    /\ requests[4].name = "formula4"

\* C8: a make_formulas_png that returns, for n >= 1 formulas with raster
\* sizes (w_i, h_i), returns height = sum h_i + (n + 1) gap and width =
\* max w_i + 2 gap, or padwidth when padwidth is given and exceeds that
\* width; the image is made with that size; one 74 x 74 raster with gap 50
\* gives (174, 174).
C8_ReturnedSize ==
    (lastcall.op = "make_formulas_png" /\ lastcall.exc = "none") =>
        LET sizes == lastcall.sizes
            n == Len(sizes)
            gap == lastcall.gap
            padwidth == lastcall.padwidth
            widths == {sizes[i][1] : i \in 1..n}
            widest == CHOOSE w \in widths : \A o \in widths : Le(o, w)
            total[i \in 0..n] == IF i = 0 THEN Zero ELSE Add(total[i - 1], sizes[i][2])
            natural == Add(widest, Add(gap, gap))
        IN  /\ n >= 1
            /\ lastcall.ret[2] = Add(total[n], Mul(I(n + 1), gap))
            /\ lastcall.ret[1] = IF padwidth = None THEN natural
                                 ELSE IF Lt(natural, padwidth) THEN padwidth ELSE natural
            /\ lastcall.canvas = lastcall.ret
            /\ (sizes = << <<I(74), I(74)>> >> /\ gap = I(50) /\ padwidth = None)
                  => lastcall.ret = <<I(174), I(174)>>

C8_Witness ==
    /\ lastcall.op = "make_formulas_png"
    /\ lastcall.exc = "none"
    /\ lastcall.sizes = << <<I(74), I(74)>>, <<I(364), I(41)>>, <<I(74), I(74)>> >>
    /\ lastcall.gap = I(30)
    /\ lastcall.padwidth = I(500)
    /\ lastcall.ret = <<I(500), I(309)>>

\* C9: a make_formulas_png that returns has painted the rasters in list
\* order, each at x = gap, the first at y = gap and each next one gap below
\* the bottom of the one before; no two overlap, each lies inside the
\* canvas, the border above the first, below the last and left of each is
\* gap, and the border right of each is at least gap.
C9_Layout ==
    (lastcall.op = "make_formulas_png" /\ lastcall.exc = "none") =>
        LET p == lastcall.painted
            sizes == lastcall.sizes
            n == Len(sizes)
            gap == lastcall.gap
            x(i) == p[i].position[1]
            y(i) == p[i].position[2]
            right(i) == Add(x(i), sizes[i][1])
            bottom(i) == Add(y(i), sizes[i][2])
        IN  /\ Len(p) = n
            /\ \A i \in 1..n :
                  /\ p[i].image = Image("formula" \o StrNat(lastcall.first + i - 1))
                  /\ p[i].size = sizes[i]
                  /\ x(i) = gap
                  /\ Le(Zero, x(i)) /\ Le(Zero, y(i))
                  /\ Le(right(i), lastcall.canvas[1])
                  /\ Le(bottom(i), lastcall.canvas[2])
                  /\ Le(gap, Sub(lastcall.canvas[1], right(i)))
            /\ y(1) = gap
            /\ \A i \in 1..(n - 1) : y(i + 1) = Add(bottom(i), gap)
            /\ \A i \in 1..n, j \in 1..n : i < j => Le(bottom(i), y(j))
            /\ Sub(lastcall.canvas[2], bottom(n)) = gap

C9_Witness ==
    /\ lastcall.op = "make_formulas_png"
    /\ lastcall.exc = "none"
    /\ lastcall.sizes = << <<I(364), I(41)>>, <<I(74), I(74)>>, <<I(364), I(41)>> >>
    /\ lastcall.gap = I(30)
    /\ lastcall.padwidth = None
    /\ lastcall.painted[3].position = <<I(30), I(205)>>
    /\ lastcall.canvas = <<I(424), I(276)>>

---------------------------------------------------------------------------
(* Claims about drawing diagram items, under SpecDiagram *)

\* C11: drawing a symbol or a connector whose strokestyle and fillstyle were
\* never called succeeds, and every shape it paints carries the default
\* stroke and fill parameters.
C11_DefaultStyleNeverFails ==
    LET plain == \/ /\ outcome.of = "connector"
                    /\ ~HasAttr(connector, "strokeparams")
                    /\ ~HasAttr(connector, "fillparams")
                 \/ /\ outcome.of = "symbol"
                    /\ symbol.strokeparams = StrokeParameters(None, None, None, None, None, None)
                    /\ symbol.fillparams = FillParameters(None, None)
    IN  (outcome.op = "draw" /\ plain) =>
            /\ outcome.exc = "none"
            /\ Len(outcome.log) >= 1
            /\ \A i \in 1..Len(outcome.log) :
                  /\ outcome.log[i].stroke
                        \in {None, StrokeParameters(None, None, None, None, None, None)}
                  /\ outcome.log[i].fill \in {None, FillParameters(None, None)}

---------------------------------------------------------------------------
(* More claims about Edge.draw, under SpecEdge *)

\* C12: a completed draw of an edge of any kind has made its base shape
\* first, then one direction marker if the edge is directed and none
\* otherwise, then one label if a weight was given (0 is a weight) and none
\* otherwise; the label's text is str(weight).
C12_MarkerAndLabel ==
    gerr = "none" =>
        LET e == graph.edges[1]
            mine == {i \in 1..Len(ctx) : ctx[i].by = <<"edge", 0>>}
            markers == {i \in mine : ctx[i].call.op = "ParallelMarker"}
            labels == {i \in mine : ctx[i].call.op = "Text"}
        IN  /\ Cardinality(markers) = (IF e.directed THEN 1 ELSE 0)
            /\ Cardinality(labels) = (IF e.weight = None THEN 0 ELSE 1)
            /\ Cardinality(mine) = 1 + Cardinality(markers) + Cardinality(labels)
            /\ ctx[1].call.op = (IF e.start = e.end THEN "Circle"
                                 ELSE IF e.curve THEN "Arc" ELSE "Line")
            /\ \A i \in markers : i = 2
            /\ \A i \in labels :
                  /\ i = Cardinality(mine)
                  /\ ctx[i].call.text = (CASE e.weight = I(0) -> "0"
                                           [] e.weight = Text("a") -> "a")

C12_Witness ==
    /\ gerr = "none"
    /\ graph.edges[1].start = graph.edges[1].end
    /\ graph.edges[1].directed
    /\ graph.edges[1].weight = I(0)
    /\ ctx[2].call.op = "ParallelMarker"
    /\ ctx[3].call.op = "Text"
    /\ ctx[3].call.text = "0"

\* C13: for a curved edge that is drawn, from p0 to p1 with curvature k, the
\* apex and the centre for curvature -k are the mirror images in the line
\* p0 p1 of the apex and the centre for k and differ from them, and the edge
\* from p1 to p0 with curvature k has the centre and the apex of the edge
\* from p0 to p1 with curvature -k.
C13_NegationMirrors ==
    (gerr = "none" /\ ctx[1].call.op = "Arc") =>
        LET e == graph.edges[1]
            p0 == PyIndex(graph.vertices, e.start).position
            p1 == PyIndex(graph.vertices, e.end).position
            d == VSub(p1, p0)
            Mirror(q) == VSub(VAdd(VAdd(p0, p0),
                                   VScale(d, Div(Mul(I(2), Dot(VSub(q, p0), d)), Dot(d, d)))), q)
            arc == arc_between_points(e, p0, p1, ctx[1].call.stroke, ctx[1].call.lw)
            negated == arc_between_points([e EXCEPT !.curvature = Neg(e.curvature)],
                                          p0, p1, ctx[1].call.stroke, ctx[1].call.lw)
            swapped == arc_between_points(e, p1, p0, ctx[1].call.stroke, ctx[1].call.lw)
        IN  /\ arc.ops[1] = ctx[1].call
            /\ negated.exc = "none" /\ swapped.exc = "none"
            /\ negated.apex = Mirror(arc.apex)
            /\ negated.apex # arc.apex
            /\ negated.ops[1].center = Mirror(arc.ops[1].center)
            /\ swapped.apex = negated.apex
            /\ swapped.ops[1].center = negated.ops[1].center

C13_Witness ==
    /\ gerr = "none"
    /\ ctx[1].call.op = "Arc"
    /\ graph.edges[1].curvature = Q(4, 3)
    /\ graph.edges[1].start = 1
    /\ graph.vertices[2].position = VI(40, 20)
    /\ ctx[1].call.radius = Q(125, 2)

\* C14: the label of a weighted edge that is drawn has the effective text
\* size (the edge's own if given, else the graph's); its offset is the
\* explicit offset if one was given, and otherwise a vector of length 0.7
\* times that text size, perpendicular to the edge direction on the side of
\* direction minus 90 degrees (the direction being p1 - p0, or the tangent
\* at the apex for a loop); it is anchored at the midpoint of a straight
\* edge and at the apex of a curved edge or loop.
C14_LabelOffsetAndAnchor ==
    (gerr = "none" /\ graph.edges[1].weight # None) =>
        LET e == graph.edges[1]
            p0 == PyIndex(graph.vertices, e.start).position
            p1 == PyIndex(graph.vertices, e.end).position
            loop == e.start = e.end
            t == ctx[Len(ctx) - 2 * Len(graph.vertices)].call
            size == IF e.text_size = None THEN graph.text_size ELSE e.text_size
            direction == IF loop
                         THEN VScale(V(Neg(e.loop_angle.y), e.loop_angle.x), e.loop_radius)
                         ELSE VSub(p1, p0)
            anchor == IF loop
                      THEN VAdd(ctx[1].call.center, VScale(e.loop_angle, e.loop_radius))
                      ELSE IF e.curve
                      THEN arc_between_points(e, p0, p1, ctx[1].call.stroke,
                                              ctx[1].call.lw).apex
                      ELSE VDivS(VAdd(p0, p1), I(2))
        IN  /\ t.op = "Text"
            /\ t.size = size
            /\ t.position = anchor
            /\ IF e.offset # None THEN t.offset = e.offset
               ELSE /\ Len2(t.offset) = Sq(Mul(Q(7, 10), size))
                    /\ direction # VI(0, 0) =>
                          /\ IsZero(Dot(t.offset, direction))
                          /\ Lt(Cross(direction, t.offset), Zero)

C14_Witness ==
    /\ gerr = "none"
    /\ graph.edges[1].weight = Text("a")
    /\ graph.edges[1].offset = None
    /\ graph.edges[1].text_size = I(20)
    /\ graph.edges[1].start = 0
    /\ graph.edges[1].end = 1
    /\ ~graph.edges[1].curve
    /\ ~graph.edges[1].directed
    /\ graph.vertices[2].position = VI(400, 500)
    /\ ctx[2].call.position = VI(250, 300)
    /\ ctx[2].call.offset = V(Q(56, 5), Q(-42, 5))

---------------------------------------------------------------------------
(* More claims about Graph, under SpecGraph *)

\* C15: every Graph.add of a Vertex appends it to the vertex list, so that
\* the index the next edge would use for it is the number of vertices before
\* the call, and leaves the edge list as it was; every add of an Edge
\* appends it to the edge list and leaves the vertex list as it was; the
\* entries already there keep their places; the eight adds of
\* test_default_graph give the vertices A, B, C, D and the edges in the
\* order added.
C15_AddAppends ==
    [][/\ AddVertex =>
            /\ graph'.edges = graph.edges
            /\ Len(graph'.vertices) = Len(graph.vertices) + 1
            /\ SubSeq(graph'.vertices, 1, Len(graph.vertices)) = graph.vertices
            /\ PyIndex(graph'.vertices, Len(graph.vertices)) \in VertexInputs
       /\ AddEdge =>
            /\ graph'.vertices = graph.vertices
            /\ Len(graph'.edges) = Len(graph.edges) + 1
            /\ SubSeq(graph'.edges, 1, Len(graph.edges)) = graph.edges
            /\ graph'.edges[Len(graph'.edges)] \in EdgeInputs
       /\ TestDefaultGraph =>
            /\ [i \in 1..4 |-> graph'.vertices[i].label] = <<"A", "B", "C", "D">>
            /\ [i \in 1..4 |-> <<graph'.edges[i].start, graph'.edges[i].end>>]
                  = << <<0, 1>>, <<1, 3>>, <<2, 0>>, <<3, 2>> >>
      ]_vars

C15_Witness ==
    /\ gerr = "undrawn"
    /\ graph.vertices = << Vertex(PosC, "C", None, None, I(0), I(50), None, None),
                           Vertex(PosA, "A", None, None, None, None, None, None) >>
    /\ graph.edges = << Edge(0, 1), Edge(-1, 0) >>

---------------------------------------------------------------------------
(* Claims about text_align_for_angle, under SpecGeom *)

\* C16 as stated: for every angle of [-180, 180] degrees, with d = -angle in
\* degrees, valign is BOTTOM for 5 < d < 175, TOP for -175 < d < -5 and
\* MIDDLE otherwise, halign is LEFT for -85 < d < 85, RIGHT for d > 95 or
\* d < -95 and CENTER otherwise; 45 degrees gives (LEFT, TOP); (CENTER,
\* MIDDLE) is never returned; the negated angle gives the same halign with
\* TOP and BOTTOM swapped; and the angle 180 degrees - angle, passed as it
\* is, gives the same valign with LEFT and RIGHT swapped.
C16_AsStated ==
    outcome.op = "text_align_for_angle" =>
        LET a == outcome.angle
            r == outcome.ret
            SwapV(v) == IF v = "TOP" THEN "BOTTOM" ELSE IF v = "BOTTOM" THEN "TOP" ELSE v
            SwapH(h) == IF h = "LEFT" THEN "RIGHT" ELSE IF h = "RIGHT" THEN "LEFT" ELSE h
        IN  /\ r # <<"CENTER", "MIDDLE">>
            /\ text_align_for_angle(Neg(a)) = <<r[1], SwapV(r[2])>>
            /\ text_align_for_angle(Sub(I(1), a)) = <<SwapH(r[1]), r[2]>>

\* C16, amended: the same, where the mirrored angle 180 degrees - angle is
\* first brought back into [-180, 180] degrees (360 degrees are subtracted
\* when the angle is negative).
C16_MirrorWithinRange ==
    outcome.op = "text_align_for_angle" =>
        LET a == outcome.angle
            d == [n |-> -180 * a.n, d |-> a.d]
            r == outcome.ret
            SwapV(v) == IF v = "TOP" THEN "BOTTOM" ELSE IF v = "BOTTOM" THEN "TOP" ELSE v
            SwapH(h) == IF h = "LEFT" THEN "RIGHT" ELSE IF h = "RIGHT" THEN "LEFT" ELSE h
            mirrored == IF Lt(a, Zero) THEN Sub(I(-1), a) ELSE Sub(I(1), a)
        IN  /\ Le(I(-180), d) /\ Le(d, I(180))
            /\ r[2] = (IF Lt(I(5), d) /\ Lt(d, I(175)) THEN "BOTTOM"
                       ELSE IF Lt(I(-175), d) /\ Lt(d, I(-5)) THEN "TOP" ELSE "MIDDLE")
            /\ r[1] = (IF Lt(I(-85), d) /\ Lt(d, I(85)) THEN "LEFT"
                       ELSE IF Lt(I(95), d) \/ Lt(d, I(-95)) THEN "RIGHT" ELSE "CENTER")
            /\ (a = Q(1, 4) => r = <<"LEFT", "TOP">>)
            /\ r # <<"CENTER", "MIDDLE">>
            /\ text_align_for_angle(Neg(a)) = <<r[1], SwapV(r[2])>>
            /\ Le(I(-1), mirrored) /\ Le(mirrored, I(1))
            /\ text_align_for_angle(mirrored) = <<SwapH(r[1]), r[2]>>

C16_Witness ==
    /\ outcome.op = "text_align_for_angle"
    /\ outcome.angle = Q(-1, 4)
    /\ outcome.ret = <<"LEFT", "BOTTOM">>
    /\ text_align_for_angle(Q(-3, 4)) = <<"RIGHT", "BOTTOM">>
    /\ text_align_for_angle(Q(5, 4)) = <<"RIGHT", "MIDDLE">>

---------------------------------------------------------------------------
(* Claims about tween_alpha_on and tween_alpha_off, under SpecTween *)

\* C17: the tween of tween_alpha_on holds off up to `time`, then for each of
\* time, t1, ..., tn in turn moves over `fade` to on, off, on, ..., strictly
\* between the two levels during the move, and holds the level reached until
\* the next time; after the last move it stays at on if n is even and at off
\* if n is odd.  tween_alpha_off is the same with on and off exchanged.
C17_AlternatingFades ==
    outcome.op \in {"tween_alpha_on", "tween_alpha_off"} =>
        LET tw == outcome.tw
            all == <<outcome.time>> \o outcome.times
            n == Len(outcome.times)
            rest == IF outcome.op = "tween_alpha_on" THEN outcome.off ELSE outcome.on
            other == IF outcome.op = "tween_alpha_on" THEN outcome.on ELSE outcome.off
            \* the level before the fade at all[i], and the one after it
            Before(i) == IF i % 2 = 1 THEN rest ELSE other
            After(i) == IF i % 2 = 1 THEN other ELSE rest
            Start(i) == FrameOf(all[i])
            End(i) == FrameOf(all[i]) + FrameOf(outcome.fade) - 1
            Between(x, a, b) == (Lt(a, x) /\ Lt(x, b)) \/ (Lt(b, x) /\ Lt(x, a))
        IN  /\ \A f \in 0..(Start(1) - 1) : Tween_get(tw, f) = rest
            /\ Start(1) > 0
            /\ \A i \in 1..(n + 1) :
                  /\ \A f \in Start(i)..(End(i) - 1) :
                        Between(Tween_get(tw, f), Before(i), After(i))
                  /\ Tween_get(tw, End(i)) = After(i)
                  /\ i <= n => \A f \in End(i)..(Start(i + 1) - 1) :
                                  Tween_get(tw, f) = After(i)
            /\ Len(tw.frames) = End(n + 1) + 1
            /\ \A f \in Len(tw.frames)..(Len(tw.frames) + FrameRate) :
                  Tween_get(tw, f) = (IF n % 2 = 0 THEN other ELSE rest)

C17_Witness ==
    /\ outcome.op = "tween_alpha_on"
    /\ outcome.time = I(2)
    /\ outcome.times = <<I(3), I(4), Q(11, 2)>>
    /\ outcome.fade = I(1)
    /\ outcome.off = Zero
    /\ Tween_get(outcome.tw, FrameOf(I(2)) - 1) = Zero
    /\ Tween_get(outcome.tw, FrameOf(I(2)) + 1) = Q(1, 2)
    /\ Tween_get(outcome.tw, FrameOf(I(3)) - 1) = I(1)
    /\ Tween_get(outcome.tw, FrameOf(I(4)) + 1) = Q(1, 2)
    /\ Tween_get(outcome.tw, FrameOf(Q(11, 2)) + FrameOf(I(1))) = Zero

---------------------------------------------------------------------------
(* Claims about formula_zoom_in.show, under SpecZoom *)

\* C18: show(ctx, fn) of a formula_zoom_in object paints nothing on a frame
\* before appear_time, paints the formula on every frame from appear_time on
\* (up to disappear_time when that is given), and with a disappear_time
\* paints nothing on any frame after disappear_time, whatever fade_duration
\* is.
C18_GoneAfterDisappearTime ==
    (outcome.op = "show" /\ outcome.of.op = "formula_zoom_in") =>
        LET made == outcome.of
            fn == outcome.fn
        IN  /\ fn < FrameOf(made.appear_time) => outcome.log = <<>>
            /\ (/\ fn >= FrameOf(made.appear_time)
                /\ made.disappear_time # None => fn < FrameOf(made.disappear_time))
                  => outcome.log # <<>>
            /\ (made.disappear_time # None /\ fn > FrameOf(made.disappear_time))
                  => outcome.log = <<>>

---------------------------------------------------------------------------
(* Claims about the connector tables of BoxItem (SpecBox) and of the gates
   (SpecSymbol) *)

\* C19: a BoxItem has exactly the 4 sides 0 left, 1 right, 2 top, 3 bottom;
\* on a side made with n connections get_connector succeeds for exactly the
\* rows 0..n-1 (for none when n = 0); point i of a side lies (i + 0.5) *
\* extent / n along it, the extent being the height on x = 0 (left) and
\* x = width (right) and the width on y = 0 (top) and y = height (bottom).
C19_BoxItemSides ==
    (symbol.kind = "BoxItem" /\ outcome.op = "BoxItem") =>
        LET n == outcome.connections
            w == outcome.width
            h == IF outcome.height # None /\ ~IsZero(outcome.height)
                 THEN outcome.height ELSE outcome.width
            Along(side, i) ==
                Div(Mul(Add(I(i), Q(1, 2)), IF side \in {1, 2} THEN h ELSE w), I(n[side]))
            Point(side, i) ==
                CASE side = 1 -> V(Zero, Along(side, i))
                  [] side = 2 -> V(w, Along(side, i))
                  [] side = 3 -> V(Along(side, i), Zero)
                  [] side = 4 -> V(Along(side, i), h)
        IN  /\ Len(symbol.connectors) = 4
            /\ \A side \in 1..4 :
                  /\ Len(symbol.connectors[side]) = n[side]
                  /\ \A i \in 0..(n[side] - 1) :
                        symbol.connectors[side][i + 1] = Point(side, i)
            /\ ret.exc # "nocall" =>
                  IF ret.col \in 0..3 /\ ret.row \in 0..(n[ret.col + 1] - 1)
                  THEN /\ ret.exc = "none"
                       /\ ret.value = VAdd(outcome.position, Point(ret.col + 1, ret.row))
                  ELSE ret.exc = "ValueError"

C19_Witness ==
    /\ symbol.kind = "BoxItem"
    /\ outcome.op = "BoxItem"
    /\ outcome.connections = <<3, 2, 1, 0>>
    /\ outcome.position = VI(100, 100)
    /\ outcome.width = I(50)
    /\ outcome.height = I(80)
    /\ ret.col = 0
    /\ ret.row = 2
    /\ ret.exc = "none"
    /\ ret.value = V(I(100), Q(500, 3))
    /\ get_connector(symbol, 3, 0).exc = "ValueError"
    /\ get_connector(symbol, 2, 0).value = VI(125, 100)

\* C20: a gate has exactly the sides 0 (inputs) and 1 (outputs), with 1 input
\* for Buffer and 2 for And, Or and Xor, and 1 output; the inputs of And are
\* at a quarter and three quarters of the height on x = 0; the output is at
\* half height at x = width, moved right by 2 * width / 10 when invert is
\* set; the inputs are the same with and without invert.
C20_GateConnectors ==
    symbol.kind \in {"Buffer", "And", "Or", "Xor"} =>
        LET w == symbol.width
            h == IF symbol.fixed_height # None /\ ~IsZero(symbol.fixed_height)
                 THEN symbol.fixed_height ELSE symbol.width
            c == symbol.connectors
            other == NewSymbolObject(symbol.kind, symbol.position, symbol.width,
                                     symbol.fixed_height, ~symbol.invert, <<>>)
        IN  /\ Len(c) = 2
            /\ Len(c[1]) = (IF symbol.kind = "Buffer" THEN 1 ELSE 2)
            /\ Len(c[2]) = 1
            /\ symbol.kind = "And" =>
                  c[1] = <<V(Zero, Div(h, I(4))), V(Zero, Div(Mul(I(3), h), I(4)))>>
            /\ c[2][1] = V(IF symbol.invert THEN Add(w, Div(Mul(I(2), w), I(10))) ELSE w,
                           Div(h, I(2)))
            /\ other.connectors[1] = c[1]
            /\ ret.exc # "nocall" =>
                  IF ret.col \in {0, 1} /\ ret.row \in 0..(Len(c[ret.col + 1]) - 1)
                  THEN /\ ret.exc = "none"
                       /\ ret.value = VAdd(symbol.position, c[ret.col + 1][ret.row + 1])
                  ELSE ret.exc = "ValueError"

C20_Witness ==
    /\ symbol.kind = "And"
    /\ symbol.invert
    /\ symbol.position = VI(100, 100)
    /\ symbol.width = I(50)
    /\ symbol.fixed_height = None
    /\ ret.col = 1
    /\ ret.row = 0
    /\ ret.exc = "none"
    /\ ret.value = VI(160, 125)
    /\ get_connector(symbol, 0, 1).value = V(I(100), Q(275, 2))
    /\ get_connector(symbol, 2, 0).exc = "ValueError"

---------------------------------------------------------------------------
(* Claims about Symbol.height, under SpecSymbol *)

\* C21: Symbol.height is the height given to the constructor whenever one
\* was given, 0 included, and the default height, the width, only when none
\* was given; the connector offsets built by the constructor use that height
\* (the output of a gate is at half of it).
C21_HeightAsGiven ==
    LET h == height(symbol.fixed_height, symbol.width)
    IN  /\ symbol.fixed_height # None => h = symbol.fixed_height
        /\ symbol.fixed_height = None => h = symbol.width
        /\ symbol.kind # "BoxItem" => symbol.connectors[2][1].y = Div(h, I(2))

---------------------------------------------------------------------------
(* Claims about degenerate curved edges, under SpecEdge *)

\* C22: drawing a curved edge between two distinct vertices at the same
\* position, or a curved edge with curvature 0, ends with a division by zero
\* raised inside arc_between_points: no apex is returned, no arc is emitted
\* and no drawing call at all is made for that edge.
C22_DegenerateArcDivides ==
    LET e == graph.edges[1]
        p0 == PyIndex(graph.vertices, e.start).position
        p1 == PyIndex(graph.vertices, e.end).position
    IN  (/\ gerr # "undrawn"
         /\ e.start # e.end
         /\ e.curve
         /\ (p0 = p1 \/ IsZero(e.curvature)))
        => /\ gerr = "ZeroDivisionError"
           /\ ctx = <<>>
           /\ arc_between_points(e, p0, p1, graph.fgcolor, graph.lw)
                 = [exc |-> "ZeroDivisionError", ops |-> <<>>, apex |-> None]

C22_Witness ==
    /\ gerr = "ZeroDivisionError"
    /\ ctx = <<>>
    /\ graph.edges[1].curve
    /\ graph.edges[1].start = 0
    /\ graph.edges[1].end = 1
    /\ graph.edges[1].curvature = Q(4, 3)
    /\ graph.edges[1].directed
    /\ graph.edges[1].weight = Text("a")
    /\ graph.vertices[1].position = graph.vertices[2].position

---------------------------------------------------------------------------
(* Claims about the shape Edge.draw chooses, under SpecEdge *)

\* C23: an edge that is drawn emits exactly one base shape, chosen by the
\* endpoint indices and the curve flag alone: a circle if start = end,
\* whatever the curve flag and the curvature; else a line if curve is
\* false; else an arc, the only shape whose draw can fail, in the arc
\* solver and with nothing emitted.  A loop never reaches the arc solver
\* (a curvature the solver fails on changes nothing), and loop_radius and
\* loop_angle change nothing for an edge with start # end.
C23_OneShapeByIndicesAndFlag ==
    gerr # "undrawn" =>
        LET e == graph.edges[1]
            shapes == {i \in 1..Len(ctx) :
                          /\ ctx[i].by[1] = "edge"
                          /\ ctx[i].call.op \in {"Circle", "Line", "Arc"}}
            OneShape(op) == /\ gerr = "none"
                            /\ shapes = {1}
                            /\ ctx[1].by = <<"edge", 0>>
                            /\ ctx[1].call.op = op
            done == [exc |-> gerr, log |-> ctx]
        IN  /\ e.start = e.end =>
                  /\ OneShape("Circle")
                  /\ \A cv \in BOOLEAN, k \in {I(0), I(1), I(2)} :
                        Graph_draw([graph EXCEPT !.edges[1].curve = cv,
                                                 !.edges[1].curvature = k]) = done
            /\ (e.start # e.end /\ ~e.curve) => OneShape("Line")
            /\ (e.start # e.end /\ e.curve) =>
                  \/ OneShape("Arc")
                  \/ gerr \in {"ZeroDivisionError", "ValueError"} /\ ctx = <<>>
            /\ e.start # e.end =>
                  \A lr \in {I(30), I(10)}, la \in LoopAngles :
                      Graph_draw([graph EXCEPT !.edges[1].loop_radius = lr,
                                               !.edges[1].loop_angle = la]) = done

C23_Witness ==
    /\ gerr = "none"
    /\ graph.edges[1].start = 1
    /\ graph.edges[1].end = 1
    /\ graph.edges[1].curve
    /\ graph.edges[1].directed
    /\ graph.edges[1].weight = I(0)
    /\ ctx[1].call.op = "Circle"
    /\ ctx[1].by = <<"edge", 0>>
    /\ Graph_draw([graph EXCEPT !.edges[1].end = 0]).exc = "none"
    /\ Graph_draw([graph EXCEPT !.edges[1].end = 0]).log[1].call.op = "Arc"
    /\ Graph_draw([graph EXCEPT !.edges[1].end = 0, !.edges[1].curve = FALSE]).log[1].call.op
          = "Line"

---------------------------------------------------------------------------
(* Claims about ElbowConnector, under SpecElbow *)

\* C24: an ElbowConnector draws the open path start, p1, p2, end.  With
\* horizontal set, p1 = (sx + (ex - sx) * position, sy) and p2 has the same
\* x and the y of end; without it, p1 = (sx, sy + (ey - sy) * position) and
\* p2 has the same y and the x of end.  Each of the three segments is
\* parallel to an axis; for a position in [0, 1] the step lies between start
\* and end, position 0 gives p1 = start and position 1 gives p2 = end.
C24_ElbowPath ==
    (outcome.op = "draw" /\ outcome.of = "elbow" /\ outcome.exc = "none") =>
        LET s == outcome.made.start
            e == outcome.made.end
            t == outcome.made.position
            sx == Add(s.x, Mul(Sub(e.x, s.x), t))
            sy == Add(s.y, Mul(Sub(e.y, s.y), t))
            p1 == IF outcome.made.horizontal THEN V(sx, s.y) ELSE V(s.x, sy)
            p2 == IF outcome.made.horizontal THEN V(sx, e.y) ELSE V(e.x, sy)
            pts == outcome.log[1].shape.points
            Aligned(a, b) == a.x = b.x \/ a.y = b.y
            Within(v, a, b) == (Le(a, v) /\ Le(v, b)) \/ (Le(b, v) /\ Le(v, a))
        IN  /\ Len(outcome.log) = 1
            /\ outcome.log[1].shape.op = "OpenPolygon"
            /\ outcome.log[1].fill = None
            /\ pts = <<s, p1, p2, e>>
            /\ \A i \in 1..3 : Aligned(pts[i], pts[i + 1])
            /\ (Le(Zero, t) /\ Le(t, I(1))) =>
                  /\ Within(p1.x, s.x, e.x) /\ Within(p1.y, s.y, e.y)
                  /\ Within(p2.x, s.x, e.x) /\ Within(p2.y, s.y, e.y)
            /\ t = Zero => p1 = s
            /\ t = I(1) => p2 = e

C24_Witness ==
    /\ outcome.op = "draw"
    /\ outcome.of = "elbow"
    /\ outcome.exc = "none"
    /\ outcome.made.end = VI(200, 150)
    /\ outcome.made.position = Q(3, 10)
    /\ outcome.made.horizontal
    /\ outcome.log[1].shape.points = <<VI(100, 100), VI(130, 100), VI(130, 150), VI(200, 150)>>
    /\ outcome.log[1].stroke.line_width = I(4)

---------------------------------------------------------------------------
(* Claims about the style setters, under SpecDiagram *)

\* C25: a strokestyle call leaves the object it was called on with the
\* stroke parameters of that call alone (the StrokeParameters object passed,
\* whatever the other arguments, or a new one built from the arguments) and
\* every other field, the fill parameters, position, size and connectors
\* included, as it was; a fillstyle call does the same for the fill
\* parameters; and draw changes nothing and strokes and fills every shape
\* with the parameters the object holds then, those of the last calls.
C25_SettersSetOnlyTheirStyle ==
    [][/\ DiagramStrokestyle =>
            /\ \E pattern \in {Color("blue"), green_stroke} :
                  symbol' = [symbol EXCEPT !.strokeparams =
                                IF pattern = green_stroke THEN green_stroke
                                ELSE StrokeParameters(pattern, I(3), None, Const("SQUARE"),
                                                      Const("MITER"), None)]
            /\ strokestyle(symbol, green_stroke, I(7)) = strokestyle(symbol, green_stroke, I(1))
       /\ DiagramFillstyle =>
            /\ \E pattern \in {Color("yellow"), grey_fill} :
                  symbol' = [symbol EXCEPT !.fillparams =
                                IF pattern = grey_fill THEN grey_fill
                                ELSE FillParameters(pattern, None)]
            /\ fillstyle(symbol, grey_fill, Const("EVEN_ODD")) = fillstyle(symbol, grey_fill, None)
       /\ ConnectorStrokestyle =>
            /\ DOMAIN connector' = DOMAIN connector \cup {"strokeparams"}
            /\ \A f \in DOMAIN connector \ {"strokeparams"} : connector'[f] = connector[f]
            /\ connector'.strokeparams
                  \in {green_stroke,
                       StrokeParameters(Color("red"), I(2), None, Const("SQUARE"),
                                        Const("MITER"), None)}
       /\ ConnectorFillstyle =>
            /\ DOMAIN connector' = DOMAIN connector \cup {"fillparams"}
            /\ \A f \in DOMAIN connector \ {"fillparams"} : connector'[f] = connector[f]
            /\ connector'.fillparams \in {grey_fill, FillParameters(Color("red"), None)}
       /\ DrawSymbol =>
            /\ symbol' = symbol
            /\ outcome'.log # <<>>
            /\ \A i \in 1..Len(outcome'.log) :
                  /\ outcome'.log[i].stroke \in {None, symbol.strokeparams}
                  /\ outcome'.log[i].fill \in {None, symbol.fillparams}
                  /\ outcome'.log[i].stroke # None \/ outcome'.log[i].fill # None
       /\ (DrawConnector /\ outcome'.exc = "none") =>
            /\ connector' = connector
            /\ Len(outcome'.log) = 1
            /\ IF connector.class = "Connection"
               THEN outcome'.log[1].fill = connector.fillparams
               ELSE outcome'.log[1].stroke = connector.strokeparams
      ]_vars

C25_Witness ==
    /\ outcome.op = "draw"
    /\ outcome.of = "symbol"
    /\ symbol.kind = "Xor"
    /\ symbol.strokeparams = green_stroke
    /\ symbol.fillparams = FillParameters(Color("yellow"), None)
    /\ outcome.log[1].stroke = green_stroke
    /\ outcome.log[1].fill.pattern = Color("yellow")
    /\ connector # None
    /\ connector.class = "Connector"
    /\ HasAttr(connector, "fillparams")
    /\ HasAttr(connector, "strokeparams")
    /\ connector.strokeparams.pattern = Color("red")
    /\ connector.fillparams = grey_fill

(***************************************************************************)
(* C26: at(position) of formula_zoom_in and of formula_fade_in changes     *)
(* only the stored position.                                               *)
(***************************************************************************)

\* C26: a step of at makes no rasterisation request and leaves the name
\* counter alone; the object after it has the position given and the image,
\* size and tweens it had.  A step of show changes neither the counter, the
\* requests nor the object, and places the image from the position the object
\* has then: the position itself for formula_fade_in, the position less half
\* the scaled size for formula_zoom_in.
C26_AtMovesOnlyThePosition ==
    [][/\ FormulaAt =>
            /\ FORMULA_INDEX' = FORMULA_INDEX
            /\ requests' = requests
            /\ lastcall'.self.position = outcome'.position
            /\ lastcall' = [lastcall EXCEPT !.self.position = outcome'.position]
       /\ (FormulaShow \/ FadeShow) =>
            /\ UNCHANGED <<FORMULA_INDEX, requests, lastcall>>
            /\ \A i \in 1..Len(outcome'.log) :
                  /\ outcome'.log[i].image = lastcall.self.image
                  /\ outcome'.log[i].position =
                        IF lastcall.op = "formula_fade_in"
                        THEN lastcall.self.position
                        ELSE <<Sub(lastcall.self.position[1],
                                   Div(Mul(lastcall.self.size[1], outcome'.log[i].scale), I(2))),
                               Sub(lastcall.self.position[2],
                                   Div(Mul(lastcall.self.size[2], outcome'.log[i].scale), I(2)))>>
      ]_vars

\* C26 happens: a formula moved to (200, 50) has been shown from there
C26_Witness ==
    /\ outcome.op = "show"
    /\ outcome.of.self.position = <<I(200), I(50)>>
    /\ outcome.log # <<>>
    /\ outcome.of.op = "formula_zoom_in" => outcome.log[1].scale = I(1)
    /\ outcome.log[1].position =
          IF outcome.of.op = "formula_fade_in" THEN <<I(200), I(50)>> ELSE <<I(163), I(13)>>

(***************************************************************************)
(* C27: edge indices are looked up, and found wrong, only by Graph.draw.   *)
(***************************************************************************)

\* the edges of the drawn graph with an endpoint index outside lo..hi
EdgesOutside(lo, hi) ==
    {i \in 1..Len(graph.edges) :
        graph.edges[i].start \notin lo..hi \/ graph.edges[i].end \notin lo..hi}

\* the draw went wrong at one of the edges bad and stopped there: every call
\* made is of an edge before the first of them, every edge before it made
\* calls, and no vertex was drawn
StoppedAtFirstOf(bad) ==
    /\ gerr # "none"
    /\ \A k \in 1..Len(ctx) : ctx[k].by[1] = "edge" /\ ctx[k].by[2] < SetMin(bad) - 1
    /\ gerr = "IndexError" =>
          \A j \in 1..(SetMin(bad) - 1) : \E k \in 1..Len(ctx) : ctx[k].by = <<"edge", j - 1>>

\* the graph with every index i below 0 written as number of vertices + i
FromZero(g) ==
    [g EXCEPT !.edges =
        [i \in 1..Len(g.edges) |->
            [g.edges[i] EXCEPT !.start = IF @ < 0 THEN Len(g.vertices) + @ ELSE @,
                               !.end = IF @ < 0 THEN Len(g.vertices) + @ ELSE @]]]

\* g and h have their loops at the same edges
SameLoops(g, h) ==
    \A i \in 1..Len(g.edges) :
       (g.edges[i].start = g.edges[i].end) <=> (h.edges[i].start = h.edges[i].end)

C28_LoopFromDrawnRadius ==
    gerr = "none" =>
       \A k \in 1..Len(ctx), m \in 1..Len(ctx) :
          (/\ ctx[k].by[1] = "edge"
           /\ ctx[k].call.op = "Circle"
           /\ graph.edges[ctx[k].by[2] + 1].start = graph.edges[ctx[k].by[2] + 1].end
           /\ ctx[m].by = <<"vertex", graph.edges[ctx[k].by[2] + 1].start>>
           /\ ctx[m].call.op = "Circle")
          => ctx[k].call.center =
                VAdd(ctx[m].call.center,
                     Polar(Add(ctx[m].call.radius,
                               Mul(graph.edges[ctx[k].by[2] + 1].loop_radius, FourFifths)),
                           graph.edges[ctx[k].by[2] + 1].loop_angle))

(***************************************************************************)
(* C29: names reserved by a call that fails are not handed out again.      *)
(***************************************************************************)

\* C29: a call in which the rasteriser raises has still moved the counter, by
\* the number of formulas for make_formulas_png and by 1 for formula_zoom_in
\* and formula_fade_in; and every rasterisation request of every call has a
\* name that differs from "formula<j>" for each j below the counter value at
\* the call, which are all the names reserved before it
C29_ReservedNamesNeverReused ==
    [][/\ (MakeFormulasPng /\ lastcall'.exc = "Exception") =>
              /\ FORMULA_INDEX' = FORMULA_INDEX + lastcall'.count
              /\ Len(requests') > Len(requests)
       /\ ((FormulaZoomIn \/ FormulaFadeIn) /\ lastcall'.exc = "Exception") =>
              FORMULA_INDEX' = FORMULA_INDEX + 1
       /\ \A i \in (Len(requests) + 1)..Len(requests') :
              /\ requests'[i].index >= FORMULA_INDEX
              /\ \A j \in 0..(FORMULA_INDEX - 1) :
                    requests'[i].name # "formula" \o StrNat(j)
      ]_vars

\* C29 happens: the first of three rasters of a make_formulas_png raised, so
\* that formula1 and formula2 were reserved and never requested, and the
\* request after it was for formula3
C29_Witness ==
    /\ FORMULA_INDEX = 4
    /\ Len(requests) = 2
    /\ requests[1].name = "formula0"
    /\ requests[2].name = "formula3"

(***************************************************************************)
(* C30: the arc solver succeeds or fails by the curvature alone.           *)
(***************************************************************************)

\* C30: for a curved edge between two distinct points and a curvature k, the
\* arc solver returns an apex exactly when 0 < |k| <= 5/3, whatever the
\* points; the arc it then draws spans the angles a - asin(0.6 k) to
\* a + asin(0.6 k); and for |k| > 5/3 it fails with the domain error of asin
\* and no arc, and nothing else of the edge, is emitted
C30_ArcSolvedByCurvatureAlone ==
    LET e == graph.edges[1]
        p0 == PyIndex(graph.vertices, e.start).position
        p1 == PyIndex(graph.vertices, e.end).position
        k == e.curvature
        r == arc_between_points(e, p0, p1, graph.fgcolor, graph.lw)
    IN  (/\ gerr # "undrawn"
         /\ e.start # e.end
         /\ e.curve
         /\ p0 # p1)
        => /\ (r.exc = "none") <=> (Lt(Zero, RAbs(k)) /\ Le(RAbs(k), Q(5, 3)))
           /\ r.exc = "none" =>
                 /\ r.apex # None
                 /\ gerr = "none"
                 /\ ctx[1].call = r.ops[1]
                 /\ r.ops[1].op = "Arc"
                 /\ r.ops[1].from = AngSub(AngSub(AngleOf(VSub(p1, p0)), Deg90),
                                           Asin(Mul(Q(3, 5), k)))
                 /\ r.ops[1].to = AngAdd(AngSub(AngleOf(VSub(p1, p0)), Deg90),
                                         Asin(Mul(Q(3, 5), k)))
           /\ Lt(Q(5, 3), RAbs(k)) =>
                 /\ r = [exc |-> "ValueError", ops |-> <<>>, apex |-> None]
                 /\ gerr = "ValueError"
                 /\ ctx = <<>>

\* C30 happens: the curvature 5/3, the largest that succeeds, between points
\* 500 apart: the arc is a half circle on the chord
C30_Witness ==
    /\ gerr = "none"
    /\ graph.edges[1].curve
    /\ graph.edges[1].start = 0
    /\ graph.edges[1].end = 1
    /\ graph.edges[1].curvature = Q(5, 3)
    /\ graph.vertices[2].position = VI(400, 500)
    /\ ctx[1].call.op = "Arc"
    /\ ctx[1].call.radius = I(250)
    /\ ctx[1].call.center = VI(250, 300)

=========================================================================
